---- MODULE Spec2Model ----
(***************************************************************************)
(* Scene graph, physical group registry and group-aware export of the      *)
(* Online3DViewer fork (engine/model/model.js, engine/model/property.js,   *)
(* engine/export/exporterbase.js, website/website.js).                     *)
(*                                                                         *)
(* A mesh object is a record [id, tris]: id is the object identity, tris   *)
(* its triangle count.  A node is a record [parent, meshIndices]; node     *)
(* identities are 1..Len(nodes), the root is node 1 and has parent 0.      *)
(* A mesh instance id is the pair <<nodeId, meshIndex>>, where meshIndex   *)
(* is the index into the model's mesh list (0-based, as in the source).    *)
(* A triangle of the model is a record [src, key, face].                   *)
(***************************************************************************)
EXTENDS Naturals, Integers, Sequences, FiniteSets, TLC

VARIABLES
    meshes,          \* Model.meshes: sequence of mesh objects
    nodes,           \* the node tree under Model.root
    nextMeshId,      \* identity given to the next constructed Mesh
    physicalGroups,  \* Model.physicalGroups: sequence of PhysicalGroup
    files,           \* the files array of the running ExporterBase.Export
    exported,        \* the request of the running export: exporter, settings
    finished,        \* one entry per invocation of the export's completion callback
    returned,        \* <<v>> when the latest operation returned the truth value v, else <<>>
    simulation,      \* SimulationPlugin: its fields, its pending timers and its running loops
    navigator        \* Navigator: selection, selections, tempSelectedMeshId, isMultiSelectionEnabled

vars == <<meshes, nodes, nextMeshId, physicalGroups, files, exported, finished, returned,
         simulation, navigator>>

\* ---------------------------------------------------------------- bounds
MaxMeshAdds == 2   \* Mesh objects constructed over a run
MaxNodes == 3      \* nodes of the tree, the root included
MaxInstances == 3  \* mesh indices held by the nodes of the tree, in total
MaxGroups == 2
MaxLoops == 2        \* timers and loops of the simulation plugin that are pending at a time     \* physical groups of the model

SceneTriCounts == {1}  \* triangle counts of the meshes of a scene under construction

\* Group names are character sequences; the two names differ in case only.
GroupNames == {<<"a">>, <<"A">>}

NoSettings ==
    [exportPhysicalGroups |-> FALSE, selectedGroups |-> <<>>, exportSelectedOnly |-> FALSE,
     exportRemainder |-> FALSE, exportSeparateFiles |-> FALSE]

NoExport == [exporter |-> "none", settings |-> NoSettings]

\* ------------------------------------------------------------ scene graph

RootId == 1

NewNode(parentId) == [parent |-> parentId, meshIndices |-> <<>>]

\* Node.Enumerate: the processor sees the node, then each child subtree in
\* child-list order (children are appended in creation order).
RECURSIVE Enumerate(_, _), EnumerateChildren(_, _, _)
Enumerate(ns, n) == <<n>> \o EnumerateChildren(ns, n, 1)

EnumerateChildren(ns, n, c) ==
    IF c > Len(ns) THEN <<>>
    ELSE (IF ns[c].parent = n THEN Enumerate(ns, c) ELSE <<>>)
         \o EnumerateChildren(ns, n, c + 1)

\* MeshInstanceId.GetKey: the key identifies the pair (node id, mesh index).
GetKey(nodeId, meshIndex) == <<nodeId, meshIndex>>

\* Model.GetMesh: meshes[index], undefined when out of range.
Undefined == [id |-> 0, tris |-> 0]

GetMesh(ms, index) ==
    IF index + 1 \in DOMAIN ms THEN ms[index + 1] ELSE Undefined

Min(a, b) == IF a < b THEN a ELSE b
Max(a, b) == IF a > b THEN a ELSE b

RECURSIVE SumSeq(_)
SumSeq(s) == IF s = <<>> THEN 0 ELSE Head(s) + SumSeq(Tail(s))

RECURSIVE Flatten(_)
Flatten(ss) == IF ss = <<>> THEN <<>> ELSE Head(ss) \o Flatten(Tail(ss))

\* A plausible slip: only the root's own mesh indices are counted.
MeshInstanceCount_RootOnly(ns) == Len(ns[RootId].meshIndices)

\* Model.MeshInstanceCount
MeshInstanceCount(ns) ==
    LET order == Enumerate(ns, RootId)
    IN SumSeq([k \in DOMAIN order |-> Len(ns[order[k]].meshIndices)])

\* Model.EnumerateMeshInstances: the mesh instances in visiting order.
EnumerateMeshInstances(ns, ms) ==
    LET order == Enumerate(ns, RootId)
        OfNode(n) == [s \in DOMAIN ns[n].meshIndices |->
                        [id |-> GetKey(n, ns[n].meshIndices[s]),
                         node |-> n,
                         mesh |-> GetMesh(ms, ns[n].meshIndices[s])]]
    IN Flatten([k \in DOMAIN order |-> OfNode(order[k])])

\* Model.AddMesh
AddMesh(tris) ==
    /\ nextMeshId <= MaxMeshAdds
    /\ meshes' = Append(meshes, [id |-> nextMeshId, tris |-> tris])
    /\ nextMeshId' = nextMeshId + 1
    /\ returned' = <<>>
    /\ UNCHANGED <<navigator, simulation, nodes, physicalGroups, files, exported, finished>>

\* Model.AddMeshToRootNode
AddMeshToRootNode(tris) ==
    /\ nextMeshId <= MaxMeshAdds
    /\ MeshInstanceCount(nodes) < MaxInstances
    /\ meshes' = Append(meshes, [id |-> nextMeshId, tris |-> tris])
    /\ nextMeshId' = nextMeshId + 1
    /\ nodes' = [nodes EXCEPT ![RootId].meshIndices = Append(@, Len(meshes))]
    /\ returned' = <<>>
    /\ UNCHANGED <<navigator, simulation, physicalGroups, files, exported, finished>>

\* Node.AddChildNode with a freshly constructed node
AddChildNode(parentId) ==
    /\ Len(nodes) < MaxNodes
    /\ parentId \in DOMAIN nodes
    /\ nodes' = Append(nodes, NewNode(parentId))
    /\ returned' = <<>>
    /\ UNCHANGED <<navigator, simulation, meshes, nextMeshId, physicalGroups, files, exported, finished>>

\* Node.AddMeshIndex with the index of a mesh of the model
AddMeshIndex(nodeId, meshIndex) ==
    /\ nodeId \in DOMAIN nodes
    /\ meshIndex \in 0 .. Len(meshes) - 1
    /\ MeshInstanceCount(nodes) < MaxInstances
    /\ nodes' = [nodes EXCEPT ![nodeId].meshIndices = Append(@, meshIndex)]
    /\ returned' = <<>>
    /\ UNCHANGED <<navigator, simulation, meshes, nextMeshId, physicalGroups, files, exported, finished>>

\* Array.prototype.splice (i, 1) on a 1-based sequence position
SpliceOne(s, i) == SubSeq(s, 1, i - 1) \o SubSeq(s, i + 1, Len(s))

\* A plausible slip: the references to the removed mesh are dropped but the
\* indices above it are not shifted down.
RECURSIVE RemoveMeshLoop_NoShift(_, _, _)
RemoveMeshLoop_NoShift(mi, i, index) ==
    IF i > Len(mi) THEN mi
    ELSE IF mi[i] = index THEN RemoveMeshLoop_NoShift(SpliceOne(mi, i), i, index)
    ELSE RemoveMeshLoop_NoShift(mi, i + 1, index)

\* The loop of Model.RemoveMesh over one node's meshIndices (i is 1-based).
RECURSIVE RemoveMeshLoop(_, _, _)
RemoveMeshLoop(mi, i, index) ==
    IF i > Len(mi) THEN mi
    ELSE IF mi[i] = index THEN RemoveMeshLoop(SpliceOne(mi, i), i, index)
    ELSE IF mi[i] > index THEN RemoveMeshLoop([mi EXCEPT ![i] = @ - 1], i + 1, index)
    ELSE RemoveMeshLoop(mi, i + 1, index)

\* Model.RemoveMesh with an index of the mesh list
RemoveMesh(index) ==
    /\ index \in 0 .. Len(meshes) - 1
    /\ meshes' = SpliceOne(meshes, index + 1)
    /\ nodes' = [n \in DOMAIN nodes |->
                    [nodes[n] EXCEPT !.meshIndices = RemoveMeshLoop(@, 1, index)]]
    /\ returned' = <<>>
    /\ UNCHANGED <<navigator, simulation, nextMeshId, physicalGroups, files, exported, finished>>

\* -------------------------------------------------------- PhysicalGroup

\* PhysicalGroup constructor: meshes is the Set of mesh keys, meshFaces the
\* Map from mesh key to the array of face indices.
NewPhysicalGroup(name) == [name |-> name, meshes |-> {}, meshFaces |-> <<>>]

\* Array.prototype.includes
Includes(arr, x) == \E k \in DOMAIN arr : arr[k] = x

\* Map.prototype.set on a key that is absent
MapInit(map, key) == IF key \in DOMAIN map THEN map ELSE map @@ (key :> <<>>)

\* Map.prototype.delete
MapDelete(map, key) == [k \in DOMAIN map \ {key} |-> map[k]]

\* PhysicalGroup.SetName
PhysicalGroup_SetName(g, name) == [g EXCEPT !.name = name]

\* PhysicalGroup.AddMesh
PhysicalGroup_AddMesh(g, key) ==
    [g EXCEPT !.meshes = @ \cup {key}, !.meshFaces = MapInit(@, key)]

\* A plausible slip: the face index is pushed without the includes test.
PhysicalGroup_AddMeshWithIndex_NoTest(g, key, faceIndex) ==
    [g EXCEPT !.meshes = @ \cup {key},
              !.meshFaces = [MapInit(@, key) EXCEPT ![key] = Append(@, faceIndex)]]

\* PhysicalGroup.AddMeshWithIndex
PhysicalGroup_AddMeshWithIndex(g, key, faceIndex) ==
    LET faces == MapInit(g.meshFaces, key)
    IN [g EXCEPT !.meshes = @ \cup {key},
                 !.meshFaces = IF ~Includes(faces[key], faceIndex)
                               THEN [faces EXCEPT ![key] = Append(@, faceIndex)]
                               ELSE faces]

\* A plausible slip: the key is deleted from the key set only.
PhysicalGroup_RemoveMesh_KeepFaces(g, key) == [g EXCEPT !.meshes = @ \ {key}]

\* PhysicalGroup.RemoveMesh
PhysicalGroup_RemoveMesh(g, key) ==
    [g EXCEPT !.meshes = @ \ {key}, !.meshFaces = MapDelete(@, key)]

\* PhysicalGroup.ContainsMesh
ContainsMesh(g, key) == key \in g.meshes

\* PhysicalGroup.GetMeshFaceIndices
GetMeshFaceIndices(g, key) ==
    IF key \in DOMAIN g.meshFaces THEN g.meshFaces[key] ELSE <<>>

\* PhysicalGroup.MeshCount
PhysicalGroup_MeshCount(g) == Cardinality(g.meshes)

\* PhysicalGroup.Clear
PhysicalGroup_Clear(g) == [g EXCEPT !.meshes = {}, !.meshFaces = <<>>]

\* ------------------------------------------- Model: physical group list

\* Model.PhysicalGroupCount
PhysicalGroupCount == Len(physicalGroups)

\* Model.FindPhysicalGroupByName: the index of the first group of that name,
\* 0 for null.
FindPhysicalGroupByName(name) ==
    IF \E i \in DOMAIN physicalGroups : physicalGroups[i].name = name
    THEN CHOOSE i \in DOMAIN physicalGroups :
            /\ physicalGroups[i].name = name
            /\ \A j \in 1 .. i - 1 : physicalGroups[j].name # name
    ELSE 0

\* Model.GetMeshInstance: null (FALSE) unless the node exists and holds the
\* mesh index.
HasMeshInstance(ns, key) ==
    /\ key[1] \in DOMAIN ns
    /\ Includes(ns[key[1]].meshIndices, key[2])

\* The ids of the mesh instances of the model.
InstanceKeys(ns, ms) ==
    LET all == EnumerateMeshInstances(ns, ms) IN {all[k].id : k \in DOMAIN all}

TriangleCountOf(ms, key) == GetMesh(ms, key[2]).tris

\* Model.AddPhysicalGroup
AddPhysicalGroup(name) ==
    /\ Len(physicalGroups) < MaxGroups
    /\ physicalGroups' = Append(physicalGroups, NewPhysicalGroup(name))
    /\ returned' = <<>>
    /\ UNCHANGED <<navigator, simulation, meshes, nodes, nextMeshId, files, exported, finished>>

\* Array.prototype.splice (index, 1) with an index of any sign: a negative
\* index counts from the end of the array, an index past the end removes
\* nothing.
Splice(arr, index) ==
    LET start == IF index < 0 THEN Max(Len(arr) + index, 0) ELSE index
    IN IF start < Len(arr) THEN SpliceOne(arr, start + 1) ELSE arr

\* A plausible slip: the index is tested against the length only.
Model_RemovePhysicalGroup_NoLowerBound(groups, index) ==
    IF index < Len(groups)
    THEN [physicalGroups |-> Splice(groups, index), returns |-> TRUE]
    ELSE [physicalGroups |-> groups, returns |-> FALSE]

\* The body of Model.RemovePhysicalGroup: the group list after the call and
\* the value it returns.
Model_RemovePhysicalGroup(groups, index) ==
    IF index >= 0 /\ index < Len(groups)
    THEN [physicalGroups |-> Splice(groups, index), returns |-> TRUE]
    ELSE [physicalGroups |-> groups, returns |-> FALSE]

\* Model.RemovePhysicalGroup
RemovePhysicalGroup(index) ==
    /\ physicalGroups' = Model_RemovePhysicalGroup(physicalGroups, index).physicalGroups
    /\ returned' = <<Model_RemovePhysicalGroup(physicalGroups, index).returns>>
    /\ UNCHANGED <<navigator, simulation, meshes, nodes, nextMeshId, files, exported, finished>>

\* Model.RemovePhysicalGroupByName
RemovePhysicalGroupByName(name) ==
    /\ physicalGroups' = IF FindPhysicalGroupByName(name) # 0
                         THEN SpliceOne(physicalGroups, FindPhysicalGroupByName(name))
                         ELSE physicalGroups
    /\ returned' = <<FindPhysicalGroupByName(name) # 0>>
    /\ UNCHANGED <<navigator, simulation, meshes, nodes, nextMeshId, files, exported, finished>>

\* PhysicalGroup.SetName on a group of the model
SetName(i, name) ==
    /\ i \in DOMAIN physicalGroups
    /\ physicalGroups' = [physicalGroups EXCEPT ![i] = PhysicalGroup_SetName(@, name)]
    /\ returned' = <<>>
    /\ UNCHANGED <<navigator, simulation, meshes, nodes, nextMeshId, files, exported, finished>>

\* PhysicalGroup.AddMesh on a group of the model, with the id of a mesh
\* instance of the model
GroupAddMesh(i, key) ==
    /\ i \in DOMAIN physicalGroups
    /\ key \in InstanceKeys(nodes, meshes)
    /\ physicalGroups' = [physicalGroups EXCEPT ![i] = PhysicalGroup_AddMesh(@, key)]
    /\ returned' = <<>>
    /\ UNCHANGED <<navigator, simulation, meshes, nodes, nextMeshId, files, exported, finished>>

\* PhysicalGroup.AddMeshWithIndex on a group of the model, with the id of a
\* mesh instance of the model and a triangle index of its mesh
GroupAddMeshWithIndex(i, key, faceIndex) ==
    /\ i \in DOMAIN physicalGroups
    /\ key \in InstanceKeys(nodes, meshes)
    /\ faceIndex \in 0 .. TriangleCountOf(meshes, key) - 1
    /\ physicalGroups' =
          [physicalGroups EXCEPT ![i] = PhysicalGroup_AddMeshWithIndex(@, key, faceIndex)]
    /\ returned' = <<>>
    /\ UNCHANGED <<navigator, simulation, meshes, nodes, nextMeshId, files, exported, finished>>

\* PhysicalGroup.RemoveMesh on a group of the model
GroupRemoveMesh(i, key) ==
    /\ i \in DOMAIN physicalGroups
    /\ key \in physicalGroups[i].meshes \cup DOMAIN physicalGroups[i].meshFaces
    /\ physicalGroups' = [physicalGroups EXCEPT ![i] = PhysicalGroup_RemoveMesh(@, key)]
    /\ returned' = <<>>
    /\ UNCHANGED <<navigator, simulation, meshes, nodes, nextMeshId, files, exported, finished>>

\* PhysicalGroup.Clear on a group of the model
GroupClear(i) ==
    /\ i \in DOMAIN physicalGroups
    /\ physicalGroups' = [physicalGroups EXCEPT ![i] = PhysicalGroup_Clear(@)]
    /\ returned' = <<>>
    /\ UNCHANGED <<navigator, simulation, meshes, nodes, nextMeshId, files, exported, finished>>

\* The loop of CreatePhysicalGroupFromSelectedFaces over the triangles of one
\* selected mesh: AddMeshWithIndex (meshId, i) for i = from .. count - 1.
RECURSIVE AddAllTriangles(_, _, _, _)
AddAllTriangles(g, key, from, count) ==
    IF from >= count THEN g
    ELSE AddAllTriangles(PhysicalGroup_AddMeshWithIndex(g, key, from), key, from + 1, count)

\* The loop of CreatePhysicalGroupFromSelectedFaces over the selected meshes.
RECURSIVE AddSelectedMeshes(_, _)
AddSelectedMeshes(g, selected) ==
    IF selected = {} THEN g
    ELSE LET key == CHOOSE k \in selected : \A o \in selected : k[1] < o[1] \/ (k[1] = o[1] /\ k[2] <= o[2])
             withMesh == PhysicalGroup_AddMesh(g, key)
             withFaces == IF HasMeshInstance(nodes, key)
                          THEN AddAllTriangles(withMesh, key, 0, TriangleCountOf(meshes, key))
                          ELSE withMesh
         IN AddSelectedMeshes(withFaces, selected \ {key})

\* Website.CreatePhysicalGroupFromSelectedFaces, the Create button: rejected
\* when nothing is selected or when a group of that name exists.
CreatePhysicalGroupFromSelectedFaces(groupName, selected) ==
    /\ selected \subseteq InstanceKeys(nodes, meshes)
    /\ Len(physicalGroups) < MaxGroups
    /\ physicalGroups' =
          IF selected = {} \/ FindPhysicalGroupByName(groupName) # 0
          THEN physicalGroups
          ELSE Append(physicalGroups, AddSelectedMeshes(NewPhysicalGroup(groupName), selected))
    /\ returned' = <<>>
    /\ UNCHANGED <<navigator, simulation, meshes, nodes, nextMeshId, files, exported, finished>>

\* ------------------------------------------------------------ exporters

\* A triangle of an exported file: a triangle of the source model, named by
\* the mesh instance and the triangle index in its mesh, or a triangle of the
\* test cube the STL group export builds.
ModelTriangle(key, face) == [src |-> "model", key |-> key, face |-> face]
CubeTriangle(face) == [src |-> "cube", key |-> <<0, 0>>, face |-> face]

\* ExportedFile: a name and the triangles its content holds.
ExportedFile(name, tris) == [name |-> name, tris |-> tris]

\* The twelve AddTriangle calls of the test cube.
CubeTriangleCount == 12

\* String.replace (/[^a-z0-9]/gi, '_').toLowerCase () on one character.
LowerCase == ("A" :> "a") @@ ("B" :> "b")
SafeChars == {"a", "b", "0", "1"} \cup DOMAIN LowerCase

SanitizeChar(c) ==
    IF c \notin SafeChars THEN "_"
    ELSE IF c \in DOMAIN LowerCase THEN LowerCase[c] ELSE c

\* The sanitized file name of a group, with its extension.
SanitizedFileName(groupName, extension) ==
    [k \in DOMAIN groupName |-> SanitizeChar(groupName[k])] \o <<extension>>

\* All triangles of one mesh instance, in mesh order.
InstanceTriangles(inst) ==
    [f \in 1 .. inst.mesh.tris |-> ModelTriangle(inst.id, f - 1)]

\* ExporterModel triangle enumeration: the triangles of the mesh instances
\* that pass settings.isMeshVisible; visible is the set of the mesh instance
\* ids for which isMeshVisible returns true.
VisibleTriangles(ns, ms, visible) ==
    LET all == EnumerateMeshInstances(ns, ms)
    IN Flatten([k \in DOMAIN all |->
                  IF all[k].id \in visible THEN InstanceTriangles(all[k]) ELSE <<>>])

\* The default isMeshVisible accepts every mesh instance.
AlwaysVisible == InstanceKeys(nodes, meshes)

\* The selected group indices as the export dialog collects them: ascending.
RECURSIVE SortedSeq(_)
SortedSeq(set) ==
    IF set = {} THEN <<>>
    ELSE LET m == CHOOSE x \in set : \A y \in set : x <= y
         IN <<m>> \o SortedSeq(set \ {m})

\* ExporterStl.CreateRemainderModel: the meshes added to the remainder model,
\* each as the list of source triangles copied into it.  usedMeshInstances
\* maps a mesh key to [all, faces].
CreateRemainderModel(ns, ms, usedMeshInstances) ==
    LET all == EnumerateMeshInstances(ns, ms)
        Unused(inst) ==
            SelectSeq(InstanceTriangles(inst),
                      LAMBDA t : ~Includes(usedMeshInstances[inst.id].faces, t.face))
        OfInstance(inst) ==
            IF inst.id \notin DOMAIN usedMeshInstances THEN <<InstanceTriangles(inst)>>
            ELSE IF ~usedMeshInstances[inst.id].all
                 THEN (IF Unused(inst) # <<>> THEN <<Unused(inst)>> ELSE <<>>)
                 ELSE <<>>
    IN Flatten([k \in DOMAIN all |-> OfInstance(all[k])])

\* [...new Set (arr)]: the elements of arr in the order of their first
\* occurrence.
RECURSIVE Unique(_)
Unique(arr) ==
    IF arr = <<>> THEN <<>>
    ELSE LET front == Unique(SubSeq(arr, 1, Len(arr) - 1))
             last == arr[Len(arr)]
         IN IF Includes(front, last) THEN front ELSE Append(front, last)

\* A plausible slip: the face indices of the group replace the ones recorded
\* for the key.
UseFaces_Replace(usedMeshInstances, key, faceIndices) ==
    LET used == IF key \in DOMAIN usedMeshInstances THEN usedMeshInstances
                ELSE usedMeshInstances @@ (key :> [all |-> FALSE, faces |-> <<>>])
    IN IF faceIndices = <<>>
       THEN [used EXCEPT ![key] = [all |-> TRUE, faces |-> <<>>]]
       ELSE [used EXCEPT ![key] = [all |-> FALSE, faces |-> Unique(faceIndices)]]

\* The bookkeeping of CreateModelFromPhysicalGroup for one mesh instance of
\* the group: the key is entered with no face, then marked 'all' for an empty
\* face list, or its face list is merged with the one recorded unless the
\* key is marked 'all'.
UseFaces(usedMeshInstances, key, faceIndices) ==
    LET used == IF key \in DOMAIN usedMeshInstances THEN usedMeshInstances
                ELSE usedMeshInstances @@ (key :> [all |-> FALSE, faces |-> <<>>])
    IN IF faceIndices = <<>>
       THEN [used EXCEPT ![key] = [all |-> TRUE, faces |-> <<>>]]
       ELSE IF used[key].all THEN used
            ELSE [used EXCEPT ![key].faces = Unique(@ \o faceIndices)]

\* The first loop of CreateModelFromPhysicalGroup over the mesh instances
\* from position k: usedMeshInstances after it.
RECURSIVE UseGroup(_, _, _, _)
UseGroup(all, k, group, usedMeshInstances) ==
    IF k > Len(all) THEN usedMeshInstances
    ELSE UseGroup(all, k + 1, group,
                  IF ContainsMesh(group, all[k].id)
                  THEN UseFaces(usedMeshInstances, all[k].id,
                                GetMeshFaceIndices(group, all[k].id))
                  ELSE usedMeshInstances)

\* ExporterStl.CreateModelFromPhysicalGroup: the meshes added to the filtered
\* model, each as the list of source triangles copied into it (one mesh per
\* key of meshesToProcess; a mesh built from a face list is added when it has
\* a triangle), and usedMeshInstances after the call.
CreateModelFromPhysicalGroup(ns, ms, group, usedMeshInstances) ==
    LET all == EnumerateMeshInstances(ns, ms)
        meshesToProcess ==
            SelectSeq([k \in DOMAIN all |-> k],
                      LAMBDA k : /\ ContainsMesh(group, all[k].id)
                                 /\ \A j \in 1 .. k - 1 : all[j].id # all[k].id)
        OfInstance(inst) ==
            LET faceIndices == GetMeshFaceIndices(group, inst.id)
                uniqueFaceIndices ==
                    SelectSeq(Unique(faceIndices),
                              LAMBDA f : f >= 0 /\ f < inst.mesh.tris)
                listed == [j \in DOMAIN uniqueFaceIndices |->
                              ModelTriangle(inst.id, uniqueFaceIndices[j])]
            IN IF faceIndices = <<>> THEN <<InstanceTriangles(inst)>>
               ELSE IF listed # <<>> THEN <<listed>> ELSE <<>>
    IN [model |-> Flatten([k \in DOMAIN meshesToProcess |->
                              OfInstance(all[meshesToProcess[k]])]),
        usedMeshInstances |-> UseGroup(all, 1, group, usedMeshInstances)]

\* CreateModelFromPhysicalGroup called for the groups of order from position
\* k with one usedMeshInstances map: the filtered models and the map.
RECURSIVE CreateGroupModelsFrom(_, _, _)
CreateGroupModelsFrom(order, k, usedMeshInstances) ==
    IF k > Len(order) THEN [models |-> <<>>, usedMeshInstances |-> usedMeshInstances]
    ELSE LET one == CreateModelFromPhysicalGroup(nodes, meshes,
                        physicalGroups[order[k] + 1], usedMeshInstances)
             rest == CreateGroupModelsFrom(order, k + 1, one.usedMeshInstances)
         IN [models |-> <<one.model>> \o rest.models,
             usedMeshInstances |-> rest.usedMeshInstances]

\* The test cube model ExportPhysicalGroups builds for every group.
CubeModel == <<[f \in 1 .. CubeTriangleCount |-> CubeTriangle(f - 1)]>>

\* The loop of ExporterStl.ExportPhysicalGroups over the groups from index i
\* (0-based): the models built for the groups that are processed, with the
\* group they were built for.
RECURSIVE ProcessGroups(_, _)
ProcessGroups(settings, i) ==
    IF i >= Len(physicalGroups) THEN <<>>
    ELSE IF settings.exportSelectedOnly /\ ~Includes(settings.selectedGroups, i)
         THEN ProcessGroups(settings, i + 1)
         ELSE <<[group |-> i, model |-> CubeModel]>> \o ProcessGroups(settings, i + 1)

\* ExporterStl.ExportPhysicalGroups
ExportPhysicalGroups(settings, format) ==
    LET processed == ProcessGroups(settings, 0)
        separate ==
            [k \in DOMAIN processed |->
                ExportedFile(SanitizedFileName(physicalGroups[processed[k].group + 1].name, ".stl"),
                             Flatten(processed[k].model))]
        unified ==
            IF Len(processed) > 0
            THEN <<ExportedFile(<<"model", ".stl">>,
                                Flatten([k \in DOMAIN processed |-> Flatten(processed[k].model)]))>>
            ELSE <<>>
        groupFiles == IF settings.exportSeparateFiles THEN separate ELSE unified
        remainderModel == CreateRemainderModel(nodes, meshes, <<>>)
        remainderFiles ==
            IF settings.exportRemainder /\ Len(remainderModel) > 0
               /\ Len(Flatten(remainderModel)) > 0
            THEN <<ExportedFile(<<"remainder", ".stl">>, Flatten(remainderModel))>>
            ELSE <<>>
        written == groupFiles \o remainderFiles
    IN IF written = <<>> THEN <<ExportedFile(<<"empty", ".stl">>, <<>>)>> ELSE written

\* ExporterStl.ExportPhysicalGroupsWithFreeCAD: the file pushed when the
\* request to the server has been answered (ok) or has failed.
ExportPhysicalGroupsWithFreeCAD(ok) ==
    IF ok THEN <<ExportedFile(<<"model", ".stl">>, <<>>)>>
    ELSE <<ExportedFile(<<"error", ".txt">>, <<>>)>>

\* ------------------------------------------------------------- encoders

\* An exported file with the layout of its content.
EncodedFile(name, tris, content) == [name |-> name, tris |-> tris, content |-> content]

\* ExportedFile.SetBufferContent: the byte length of the content kept for a
\* buffer of the given length; an empty buffer is replaced by one space.
SetBufferContent(byteLength) == IF byteLength = 0 THEN 1 ELSE byteLength

\* BinaryWriter: a buffer of byteLength bytes and the write position.
BinaryWriter(byteLength) == [byteLength |-> byteLength, position |-> 0]

\* BinaryWriter.WriteUnsignedCharacter8 and the wider writes, count times
\* size bytes.
WriteBytes(writer, size, count) == [writer EXCEPT !.position = @ + size * count]

\* ExporterModel.TriangleCount: the triangles of the visible mesh instances.
ExporterModel_TriangleCount(visible) == Len(VisibleTriangles(nodes, meshes, visible))

\* headerSize and the bytes of one triangle record in ExportBinaryForModel.
HeaderSize == 80
TriangleRecordSize == 50

\* A plausible slip: the four bytes of the triangle count are not allocated.
ExportBinaryForModel_NoCountBytes(visible, fileName) ==
    LET triangleCount == ExporterModel_TriangleCount(visible)
        callbacks == VisibleTriangles(nodes, meshes, visible)
        stlWriter == BinaryWriter(HeaderSize + triangleCount * TriangleRecordSize)
        written == WriteBytes(WriteBytes(WriteBytes(WriteBytes(stlWriter, 1, HeaderSize),
                        4, 1), 4, 12 * Len(callbacks)), 2, Len(callbacks))
    IN EncodedFile(fileName, callbacks,
           [kind |-> "stlBinary", byteLength |-> SetBufferContent(stlWriter.byteLength),
            triangleCount |-> triangleCount,
            writtenTriangles |-> Len(callbacks), position |-> written.position])

\* ExporterStl.ExportBinaryForModel: the file pushed for an exporter model
\* with the given visible mesh instances.
ExportBinaryForModel(visible, fileName) ==
    LET counted == ExporterModel_TriangleCount(visible)
        triangleCount == IF counted <= 0 THEN 0 ELSE counted
        callbacks == VisibleTriangles(nodes, meshes, visible)
        fullByteLength == HeaderSize + 4 + triangleCount * TriangleRecordSize
        stlWriter == BinaryWriter(fullByteLength)
        header == WriteBytes(stlWriter, 1, HeaderSize)
        count == WriteBytes(header, 4, 1)
        floats == WriteBytes(count, 4, 12 * Len(callbacks))
        written == WriteBytes(floats, 2, Len(callbacks))
    IN EncodedFile(fileName, callbacks,
           [kind |-> "stlBinary", byteLength |-> SetBufferContent(stlWriter.byteLength),
            triangleCount |-> triangleCount,
            writtenTriangles |-> Len(callbacks), position |-> written.position])

\* ExporterStl.ExportTextForModel: the solid line, one facet per triangle and
\* the endsolid line.
ExportTextForModel(visible, fileName, modelName) ==
    LET callbacks == VisibleTriangles(nodes, meshes, visible)
    IN EncodedFile(fileName, callbacks,
           [kind |-> "stlText", solid |-> modelName, facets |-> Len(callbacks),
            endsolid |-> modelName])

\* ExporterModel.EnumerateMeshes: the meshes of the visible mesh instances, in
\* visiting order.
EnumerateMeshes(visible) ==
    LET all == EnumerateMeshInstances(nodes, meshes)
    IN Flatten([k \in DOMAIN all |->
                  IF all[k].id \in visible THEN <<all[k].mesh>> ELSE <<>>])

\* ConvertMeshToMeshBuffer: one primitive per mesh, with three indices, three
\* positions and three normals per triangle and no colors or uvs.
MeshPrimitive(mesh) ==
    [indices |-> 3 * mesh.tris, vertices |-> 9 * mesh.tris, colors |-> 0,
     normals |-> 9 * mesh.tris, uvs |-> 0]

\* The bytes GetMainBuffer writes for one primitive: uint32 indices, float32
\* for everything else.
PrimitiveByteLength(p) == 4 * p.indices + 4 * (p.vertices + p.colors + p.normals + p.uvs)

\* ExporterGltf.GetMainBuffer: the byte length of the buffer and, per mesh,
\* the offset and the size of its primitive.
RECURSIVE GetMainBufferFrom(_, _)
GetMainBufferFrom(meshDataArr, position) ==
    IF meshDataArr = <<>> THEN <<>>
    ELSE LET size == PrimitiveByteLength(MeshPrimitive(Head(meshDataArr)))
         IN <<[offset |-> position, size |-> size]>>
            \o GetMainBufferFrom(Tail(meshDataArr), position + size)

GetMainBuffer(meshDataArr) ==
    LET regions == GetMainBufferFrom(meshDataArr, 0)
    IN [byteLength |-> SumSeq([k \in DOMAIN regions |-> regions[k].size]),
        regions |-> regions]

\* A plausible slip: sizes are used as they are.
AlignToBoundary_None(size) == size

\* AlignToBoundary in ExporterGltf.ExportBinaryContent
AlignToBoundary(size) ==
    LET remainder == size % 4
    IN IF remainder = 0 THEN size ELSE size + (4 - remainder)

\* A plausible slip: the creator does not advance its offset.
RECURSIVE AddBufferViews_NoAdvance(_, _)
AddBufferViews_NoAdvance(byteOffset, byteLengths) ==
    IF byteLengths = <<>> THEN <<>>
    ELSE <<[byteOffset |-> byteOffset, byteLength |-> Head(byteLengths)]>>
         \o AddBufferViews_NoAdvance(byteOffset, Tail(byteLengths))

\* BufferViewCreator: AddBufferView called with each of byteLengths on a
\* creator made with byteOffset.
RECURSIVE AddBufferViews(_, _)
AddBufferViews(byteOffset, byteLengths) ==
    IF byteLengths = <<>> THEN <<>>
    ELSE <<[byteOffset |-> byteOffset, byteLength |-> Head(byteLengths)]>>
         \o AddBufferViews(byteOffset + Head(byteLengths), Tail(byteLengths))

\* The buffer views GetMainJson creates for a primitive: indices, vertices,
\* colors if there are any, normals, uvs if there are any.
PrimitiveBufferViews(p, offset) ==
    AddBufferViews(offset,
        <<p.indices * 4, p.vertices * 4>>
        \o (IF p.colors > 0 THEN <<p.colors * 4>> ELSE <<>>)
        \o <<p.normals * 4>>
        \o (IF p.uvs > 0 THEN <<p.uvs * 4>> ELSE <<>>))

\* The mesh loop of GetMainJson: per mesh, the buffer views of its primitive,
\* from the offset GetMainBuffer recorded for it.
MeshBufferViews(meshDataArr, regions) ==
    [k \in DOMAIN meshDataArr |->
        PrimitiveBufferViews(MeshPrimitive(meshDataArr[k]), regions[k].offset)]

\* The buffer views ExportBinaryContent adds for the textures, from
\* textureOffset.
RECURSIVE TextureBufferViews(_, _)
TextureBufferViews(textureOffset, textureBuffers) ==
    IF textureBuffers = <<>> THEN <<>>
    ELSE <<[byteOffset |-> textureOffset, byteLength |-> Head(textureBuffers)]>>
         \o TextureBufferViews(textureOffset + Head(textureBuffers), Tail(textureBuffers))

\* A plausible slip: the header of the binary chunk is not counted.
GlbSize_OneChunkHeader(mainJsonBufferAlignedLength, mainBinaryBufferAlignedLength) ==
    12 + 8 + mainJsonBufferAlignedLength + mainBinaryBufferAlignedLength

\* glbSize in ExporterGltf.ExportBinaryContent: the file header, and a chunk
\* header and the aligned content for each of the two chunks.
GlbSize(mainJsonBufferAlignedLength, mainBinaryBufferAlignedLength) ==
    12 + 8 + mainJsonBufferAlignedLength + 8 + mainBinaryBufferAlignedLength

\* ExporterGltf.ExportBinaryContent: the file pushed for an exporter model
\* whose scene description takes jsonLength bytes and whose materials refer
\* to textures with the given buffer lengths.
ExportBinaryContent(visible, jsonLength, textureBuffers) ==
    LET mainBuffer == GetMainBuffer(EnumerateMeshes(visible))
        mainBinaryBufferLength == mainBuffer.byteLength + SumSeq(textureBuffers)
        mainBinaryBufferAlignedLength == AlignToBoundary(mainBinaryBufferLength)
        mainJsonBufferAlignedLength == AlignToBoundary(jsonLength)
        glbSize == GlbSize(mainJsonBufferAlignedLength, mainBinaryBufferAlignedLength)
        glbWriter == BinaryWriter(glbSize)
        header == WriteBytes(glbWriter, 4, 3)
        jsonHeader == WriteBytes(header, 4, 2)
        json == WriteBytes(jsonHeader, 1, jsonLength)
        jsonPadded == WriteBytes(json, 1, mainJsonBufferAlignedLength - jsonLength)
        binHeader == WriteBytes(jsonPadded, 4, 2)
        bin == WriteBytes(binHeader, 1, mainBinaryBufferLength)
        binPadded == WriteBytes(bin, 1, mainBinaryBufferAlignedLength - mainBinaryBufferLength)
    IN <<EncodedFile(<<"model", ".glb">>, VisibleTriangles(nodes, meshes, visible),
            [kind |-> "glb", byteLength |-> SetBufferContent(glbWriter.byteLength),
             length |-> glbSize,
             jsonChunkLength |-> mainJsonBufferAlignedLength,
             jsonChunkStart |-> jsonHeader.position,
             jsonPadding |-> [char |-> 32, count |-> mainJsonBufferAlignedLength - jsonLength],
             binChunkLength |-> mainBinaryBufferAlignedLength,
             binChunkStart |-> binHeader.position,
             binPadding |-> [char |-> 0,
                             count |-> mainBinaryBufferAlignedLength - mainBinaryBufferLength],
             bufferByteLength |-> mainBinaryBufferAlignedLength,
             regions |-> mainBuffer.regions,
             meshViews |-> MeshBufferViews(EnumerateMeshes(visible), mainBuffer.regions),
             textureViews |-> TextureBufferViews(mainBuffer.byteLength, textureBuffers),
             position |-> binPadded.position])>>

\* ExporterGltf.ExportAsciiContent: model.gltf, model.bin and one file per
\* texture.
ExportAsciiContent(visible, jsonLength, textureBuffers) ==
    LET mainBuffer == GetMainBuffer(EnumerateMeshes(visible))
    IN <<EncodedFile(<<"model", ".gltf">>, VisibleTriangles(nodes, meshes, visible),
            [kind |-> "gltf", byteLength |-> jsonLength,
             bufferByteLength |-> mainBuffer.byteLength, regions |-> mainBuffer.regions,
             meshViews |-> MeshBufferViews(EnumerateMeshes(visible), mainBuffer.regions),
             textureViews |-> <<>>]),
         EncodedFile(<<"model", ".bin">>, <<>>,
            [kind |-> "bin", byteLength |-> SetBufferContent(mainBuffer.byteLength)])>>
       \o [k \in DOMAIN textureBuffers |->
             EncodedFile(<<"texture", k>>, <<>>,
                [kind |-> "texture", byteLength |-> SetBufferContent(textureBuffers[k])])]

\* ExporterGltf.ExportAsciiContent and ExportBinaryContent: the files pushed
\* for an exporter model with the given visibility.
GltfFiles(format, visible) ==
    IF format = "Text"
    THEN <<ExportedFile(<<"model", ".gltf">>, VisibleTriangles(nodes, meshes, visible)),
           ExportedFile(<<"model", ".bin">>, <<>>)>>
    ELSE <<ExportedFile(<<"model", ".glb">>, VisibleTriangles(nodes, meshes, visible))>>

\* The body of the group loop of ExporterGltf.ExportContent for one group.
GltfGroupFiles(format, groupIndex) ==
    LET group == physicalGroups[groupIndex + 1]
        groupFilter == {key \in InstanceKeys(nodes, meshes) : ContainsMesh(group, key)}
        groupFiles == GltfFiles(format, groupFilter)
        extension == IF format = "Text" THEN ".gltf" ELSE ".glb"
    IN <<[groupFiles[1] EXCEPT !.name = SanitizedFileName(group.name, extension)]>>
       \o (IF format = "Text" THEN Tail(groupFiles) ELSE <<>>)

\* ExporterGltf.ExportContent
ExporterGltf_ExportContent(settings, format) ==
    IF settings.exportPhysicalGroups
    THEN LET groupsToExport ==
                 IF Len(settings.selectedGroups) > 0 THEN settings.selectedGroups
                 ELSE [k \in 1 .. Len(physicalGroups) |-> k - 1]
         IN Flatten([k \in DOMAIN groupsToExport |->
                       IF groupsToExport[k] < 0 \/ groupsToExport[k] >= Len(physicalGroups)
                       THEN <<>>
                       ELSE GltfGroupFiles(format, groupsToExport[k])])
    ELSE GltfFiles(format, AlwaysVisible)

\* The download the export dialog starts in onSuccess (files): nothing for an
\* empty list, the file itself for one file, model.zip with one entry per
\* file name for more (a later file replaces an earlier one of that name).
Package(fs) ==
    IF Len(fs) = 0 THEN [kind |-> "none", name |-> <<>>, entries |-> <<>>]
    ELSE IF Len(fs) = 1
         THEN [kind |-> "file", name |-> fs[1].name, entries |-> <<fs[1]>>]
         ELSE LET last(n) == CHOOSE k \in DOMAIN fs :
                                /\ fs[k].name = n
                                /\ \A j \in DOMAIN fs : fs[j].name = n => j <= k
                  firsts == SelectSeq([k \in DOMAIN fs |-> k],
                                LAMBDA k : \A j \in 1 .. k - 1 : fs[j].name # fs[k].name)
              IN [kind |-> "zip", name |-> <<"model", ".zip">>,
                  entries |-> [k \in DOMAIN firsts |-> fs[last(fs[firsts[k]].name)]]]

\* The callback ExporterBase.Export passes to ExportContent: onFinish (files)
\* with the files array as it is at the time of the call.
Finish(done, fs) == Append(done, [files |-> fs, download |-> Package(fs)])

\* Model.EnumerateTriangleVertices: the triangles of all mesh instances, in
\* visiting order; the exporters number them from 0.
EnumerateTriangleVertices ==
    LET all == EnumerateMeshInstances(nodes, meshes)
    IN Flatten([k \in DOMAIN all |-> InstanceTriangles(all[k])])

\* Model.TriangleCount
TriangleCount ==
    LET all == EnumerateMeshInstances(nodes, meshes)
    IN SumSeq([k \in DOMAIN all |-> all[k].mesh.tris])

\* The triangle numbers the IGES and the STEP export give to group i (from 0)
\* of groupCount groups: startIdx .. endIdx - 1.
AssignedRange(i, totalTriangles, groupCount) ==
    LET groupSize == Max(1, totalTriangles \div groupCount)
        startIdx == i * groupSize
        endIdx == Min(totalTriangles, (i + 1) * groupSize)
    IN [j \in 1 .. Max(0, endIdx - startIdx) |-> startIdx + j - 1]

\* The physicalGroups array of the request ExporterIges.ExportContent sends to
\* the server.
IgesPhysicalGroups ==
    LET totalTriangles == Len(EnumerateTriangleVertices)
        count == Len(physicalGroups)
        groups == [k \in 1 .. count |->
                      [name |-> physicalGroups[k].name,
                       meshIds |-> AssignedRange(k - 1, totalTriangles, count)]]
        assignedTriangles == UNION {{groups[k].meshIds[j] : j \in DOMAIN groups[k].meshIds} :
                                       k \in DOMAIN groups}
        unassignedTriangles == SortedSeq((0 .. totalTriangles - 1) \ assignedTriangles)
    IN IF count > 0
       THEN groups \o (IF Len(unassignedTriangles) > 0
                       THEN <<[name |-> <<"Unassigned_Faces">>, meshIds |-> unassignedTriangles]>>
                       ELSE <<>>)
       ELSE <<[name |-> <<"Model_Faces">>,
               meshIds |-> [j \in 1 .. totalTriangles |-> j - 1]]>>

\* modelData of ExportPhysicalGroupsWithFreeCAD: the triangles of the model,
\* the name and the mesh keys of every physical group, and the selected
\* group indices of the settings.
StlModelData(settings) ==
    [triangles |-> EnumerateTriangleVertices,
     physicalGroups |-> [k \in DOMAIN physicalGroups |->
                           [name |-> physicalGroups[k].name,
                            meshIds |-> physicalGroups[k].meshes]],
     selectedGroups |-> settings.selectedGroups]

\* A plausible slip: the body of the request is collected from the model
\* when the request is sent.
PostBody_FromModel(modelData) ==
    IF exported.exporter = "iges" THEN IgesPhysicalGroups ELSE StlModelData(exported.settings)

\* body: JSON.stringify (modelData) in the handler that sends the POST
\* request: the data collected before the first request was made.
PostBody(modelData) == modelData

\* ExporterBase.Export with the STL exporter's ExportContent.  Without group
\* export the model is written and the callback is called; with it the
\* request to the server is prepared and sent (prepared), or the preparation
\* throws, error.txt is pushed and the callback is called.
ExportStl(settings, format, prepared) ==
    /\ exported = NoExport
    /\ exported' = [exporter |-> "stl", settings |-> settings,
                    request |-> IF settings.exportPhysicalGroups /\ Len(physicalGroups) > 0
                                   /\ prepared
                                THEN StlModelData(settings) ELSE <<>>,
                    body |-> <<>>]
    /\ IF settings.exportPhysicalGroups /\ Len(physicalGroups) > 0
       THEN IF prepared
            THEN files' = <<>> /\ finished' = <<>>
            ELSE /\ files' = ExportPhysicalGroupsWithFreeCAD(FALSE)
                 /\ finished' = Finish(<<>>, files')
       ELSE /\ files' = <<IF format = "Text"
                          THEN ExportTextForModel(AlwaysVisible, <<"model", ".stl">>, "Model")
                          ELSE ExportBinaryForModel(AlwaysVisible, <<"model", ".stl">>)>>
            /\ finished' = Finish(<<>>, files')
    /\ returned' = <<>>
    /\ UNCHANGED <<navigator, simulation, meshes, nodes, nextMeshId, physicalGroups>>

\* The export waits for the answer of the server.
Waiting == exported.exporter \in {"stl", "iges"} /\ finished = <<>>

\* The promise chain of ExportPhysicalGroupsWithFreeCAD: the answer of the
\* server arrives (ok) or the request fails.  The handler pushes its file and
\* calls the callback; when the callback throws in the then-handler, the
\* catch-handler runs after it.
FreeCADResponse(ok, callbackThrows) ==
    /\ exported.exporter = "stl"
    /\ finished = <<>>
    /\ IF ok /\ callbackThrows
       THEN /\ files' = ExportPhysicalGroupsWithFreeCAD(TRUE)
                           \o ExportPhysicalGroupsWithFreeCAD(FALSE)
            /\ finished' = Finish(Finish(finished, ExportPhysicalGroupsWithFreeCAD(TRUE)), files')
       ELSE /\ files' = ExportPhysicalGroupsWithFreeCAD(ok)
            /\ finished' = Finish(finished, files')
    /\ exported' = [exported EXCEPT !.body = PostBody(exported.request)]
    /\ returned' = <<>>
    /\ UNCHANGED <<navigator, simulation, meshes, nodes, nextMeshId, physicalGroups>>

\* new Model (): no mesh, no material, a root node without mesh indices.
NewModel == [meshes |-> <<>>, nodes |-> <<NewNode(0)>>, materials |-> <<>>]

\* The materials of the exported model.
ModelMaterials == <<"material">>

\* The exported model as the Model object the exporters are given.
SourceModel == [meshes |-> meshes, nodes |-> nodes, materials |-> ModelMaterials]

\* The filtered model ExportPhysicalGroups builds for a group: the test cube
\* mesh on a mesh node below the root, and the test material.  Mesh objects
\* constructed by an exporter have the id -1.
FilteredModel ==
    [meshes |-> <<[id |-> -1, tris |-> CubeTriangleCount]>>,
     nodes |-> <<NewNode(0), [parent |-> RootId, meshIndices |-> <<0>>]>>,
     materials |-> <<"Test Material">>]

\* Node.EnumerateMeshIndices on the root node: the mesh indices of the tree.
EnumerateMeshIndices(ns) ==
    LET order == Enumerate(ns, RootId)
    IN Flatten([k \in DOMAIN order |-> ns[order[k]].meshIndices])

\* ExporterStl.MergeIntoModel: the target model after the merge: a group node
\* below its root, clones of the meshes of the source model, and the mesh
\* indices of the source model on the group node.
MergeIntoModel(sourceModel, targetModel) ==
    LET offset == Len(targetModel.meshes)
        clones == [i \in DOMAIN sourceModel.meshes |->
                      [id |-> -1, tris |-> sourceModel.meshes[i].tris]]
        indices == EnumerateMeshIndices(sourceModel.nodes)
        groupNode == [parent |-> RootId,
                      meshIndices |-> [k \in DOMAIN indices |-> offset + indices[k]]]
    IN [targetModel EXCEPT !.meshes = @ \o clones, !.nodes = Append(@, groupNode)]

\* A plausible slip: the groups are merged into the exported model.
UnifiedModel_IsModel == "model"

\* unifiedModel = new Model () in ExportPhysicalGroups: the Model object the
\* groups are merged into.
UnifiedModel == "unifiedModel"

\* The Model objects of ExportPhysicalGroups after count groups were merged.
RECURSIVE MergeGroups(_, _)
MergeGroups(objects, count) ==
    IF count = 0 THEN objects
    ELSE MergeGroups([objects EXCEPT ![UnifiedModel] = MergeIntoModel(FilteredModel, @)],
                     count - 1)

\* The Model objects after ExporterStl.ExportPhysicalGroups: the exported
\* model, and the unified model with the materials of the exported model and
\* the processed groups.
ModelsAfterExport(settings) ==
    LET objects == [model |-> SourceModel, unifiedModel |-> NewModel]
        copied == [objects EXCEPT ![UnifiedModel].materials = @ \o SourceModel.materials]
    IN IF settings.exportSeparateFiles THEN objects
       ELSE MergeGroups(copied, Len(ProcessGroups(settings, 0)))

\* Object.assign ({}, exporterModel.settings): the settings object the group
\* loops of the exporters change.
AssignedSettings == "copy"

\* The caller's settings object after an export whose group loop has made
\* its copy of the settings and has switched exportPhysicalGroups off in it
\* (changed), or has not run.
CallerSettingsAfter(settings, changed) ==
    LET objects == [caller |-> settings, copy |-> settings]
        after == IF changed
                 THEN [objects EXCEPT ![AssignedSettings].exportPhysicalGroups = FALSE]
                 ELSE objects
    IN after.caller

\* ExporterStl.ExportPhysicalGroups called with an empty files array
ExportStlGroups(settings, format) ==
    /\ exported = NoExport
    /\ settings.exportPhysicalGroups
    /\ files' = ExportPhysicalGroups(settings, format)
    /\ exported' = [exporter |-> "stlGroups", settings |-> settings,
                    callerSettings |->
                        CallerSettingsAfter(settings, Len(ProcessGroups(settings, 0)) > 0)]
    /\ meshes' = ModelsAfterExport(settings).model.meshes
    /\ nodes' = ModelsAfterExport(settings).model.nodes
    /\ returned' = <<>>
    /\ UNCHANGED <<navigator, simulation, nextMeshId, physicalGroups, finished>>

\* ExporterBase.Export with the glTF exporter's ExportContent
ExportGltf(settings, format) ==
    /\ exported = NoExport
    /\ files' = ExporterGltf_ExportContent(settings, format)
    /\ exported' = [exporter |-> "gltf", settings |-> settings,
                    callerSettings |->
                        CallerSettingsAfter(settings,
                            settings.exportPhysicalGroups /\ files' # <<>>)]
    /\ finished' = Finish(<<>>, files')
    /\ returned' = <<>>
    /\ UNCHANGED <<navigator, simulation, meshes, nodes, nextMeshId, physicalGroups>>

\* ExporterGltf.ExportContent without group export
ExportGltfContent(format, jsonLength, textureBuffers) ==
    /\ exported = NoExport
    /\ files' = IF format = "Text"
                THEN ExportAsciiContent(AlwaysVisible, jsonLength, textureBuffers)
                ELSE ExportBinaryContent(AlwaysVisible, jsonLength, textureBuffers)
    /\ exported' = [exporter |-> "gltf", settings |-> NoSettings]
    /\ finished' = Finish(<<>>, files')
    /\ returned' = <<>>
    /\ UNCHANGED <<navigator, simulation, meshes, nodes, nextMeshId, physicalGroups>>

\* The file the promise chain of ExporterIges.ExportContent pushes.
IgesFile(ok) ==
    IF ok THEN <<ExportedFile(<<"model", ".igs">>, <<>>)>>
    ELSE <<ExportedFile(<<"error", ".txt">>, <<>>)>>

\* ExporterBase.Export with ExporterIges.ExportContent: the request is
\* prepared and sent, or the preparation throws and the callback is called
\* without a file.
ExportIges(prepared) ==
    /\ exported = NoExport
    /\ files' = <<>>
    /\ IF prepared
       THEN /\ exported' = [exporter |-> "iges", settings |-> NoSettings,
                            request |-> IgesPhysicalGroups, body |-> <<>>]
            /\ finished' = <<>>
       ELSE /\ exported' = [exporter |-> "iges", settings |-> NoSettings, request |-> <<>>,
                            body |-> <<>>]
            /\ finished' = Finish(<<>>, <<>>)
    /\ returned' = <<>>
    /\ UNCHANGED <<navigator, simulation, meshes, nodes, nextMeshId, physicalGroups>>

\* The promise chain of ExporterIges.ExportContent, as for the STL export.
IgesResponse(ok, callbackThrows) ==
    /\ exported.exporter = "iges"
    /\ finished = <<>>
    /\ IF ok /\ callbackThrows
       THEN /\ files' = IgesFile(TRUE) \o IgesFile(FALSE)
            /\ finished' = Finish(Finish(finished, IgesFile(TRUE)), files')
       ELSE /\ files' = IgesFile(ok)
            /\ finished' = Finish(finished, files')
    /\ exported' = [exported EXCEPT !.body = PostBody(exported.request)]
    /\ returned' = <<>>
    /\ UNCHANGED <<navigator, simulation, meshes, nodes, nextMeshId, physicalGroups>>

\* The group information ExporterStep.ExportContent writes into model.stp: per
\* group the name, the number of triangles it is said to contain and the mesh
\* keys, then the number of unassigned faces.
StepContent ==
    LET totalTriangles == TriangleCount
        count == Len(physicalGroups)
        range(k) == IF physicalGroups[k].meshes # {}
                    THEN AssignedRange(k - 1, totalTriangles, count) ELSE <<>>
        assignedTriangles == UNION {{range(k)[j] : j \in DOMAIN range(k)} : k \in 1 .. count}
    IN [kind |-> "step",
        groups |-> [k \in 1 .. count |->
                      [name |-> physicalGroups[k].name, triangles |-> Len(range(k)),
                       meshes |-> physicalGroups[k].meshes]],
        unassigned |-> totalTriangles - Cardinality(assignedTriangles)]

\* ExporterBase.Export with ExporterStep.ExportContent: model.stp is pushed
\* and the callback is called inside the try block; when the callback throws
\* the catch block calls it again.
ExportStep(callbackThrows) ==
    /\ exported = NoExport
    /\ files' = <<EncodedFile(<<"model", ".stp">>, <<>>, StepContent)>>
    /\ exported' = [exporter |-> "step", settings |-> NoSettings]
    /\ finished' = IF callbackThrows THEN Finish(Finish(<<>>, files'), files')
                   ELSE Finish(<<>>, files')
    /\ returned' = <<>>
    /\ UNCHANGED <<navigator, simulation, meshes, nodes, nextMeshId, physicalGroups>>

\* Node.GetChildNodes: the child nodes in the order they were added.
GetChildNodes(ns, n) ==
    SelectSeq([c \in DOMAIN ns |-> c], LAMBDA c : ns[c].parent = n)

\* Node.IsMeshNode: a node without child nodes that holds one mesh index.
IsMeshNode(ns, n) == GetChildNodes(ns, n) = <<>> /\ Len(ns[n].meshIndices) = 1

\* A plausible slip: only the node's own mesh indices are looked at.
NodeHasVisibleChildren_OwnOnly(ns, visible, n) ==
    \E s \in DOMAIN ns[n].meshIndices : GetKey(n, ns[n].meshIndices[s]) \in visible

\* NodeHasVisibleChildren in ExporterGltf.GetMainJson
RECURSIVE NodeHasVisibleChildren(_, _, _)
NodeHasVisibleChildren(ns, visible, n) ==
    \/ \E s \in DOMAIN ns[n].meshIndices : GetKey(n, ns[n].meshIndices[s]) \in visible
    \/ \E c \in DOMAIN ns : ns[c].parent = n /\ NodeHasVisibleChildren(ns, visible, c)

\* AddMeshNode in ExporterGltf.GetMainJson: the json node pushed for the mesh
\* index at position s of node n, none when the mesh instance is not visible.
AddMeshNode(ns, visible, n, s) ==
    LET meshInstanceId == GetKey(n, ns[n].meshIndices[s])
    IN IF meshInstanceId \notin visible THEN <<>>
       ELSE <<[kind |-> "mesh", node |-> n, slot |-> s, key |-> meshInstanceId]>>

\* AddJsonNode and AddChildNodes in ExporterGltf.GetMainJson: the json nodes
\* pushed for node n, and for the child nodes and the mesh indices of node n.
RECURSIVE AddJsonNode(_, _, _), AddChildNodes(_, _, _)
AddJsonNode(ns, visible, n) ==
    IF IsMeshNode(ns, n)
    THEN Flatten([s \in DOMAIN ns[n].meshIndices |-> AddMeshNode(ns, visible, n, s)])
    ELSE IF NodeHasVisibleChildren(ns, visible, n)
         THEN <<[kind |-> "node", node |-> n, slot |-> 0, key |-> <<>>]>>
              \o AddChildNodes(ns, visible, n)
         ELSE <<>>

AddChildNodes(ns, visible, n) ==
    LET childNodes == GetChildNodes(ns, n)
    IN Flatten([c \in DOMAIN childNodes |-> AddJsonNode(ns, visible, childNodes[c])])
       \o Flatten([s \in DOMAIN ns[n].meshIndices |-> AddMeshNode(ns, visible, n, s)])

\* ExporterGltf.GetMainJson: the nodes array of the scene description.
GetMainJson(visible) ==
    [kind |-> "scene", visible |-> visible, nodes |-> AddChildNodes(nodes, visible, RootId)]

\* ExporterBase.Export with the glTF exporter's ExportContent (binary, no
\* group export) for an exporter model whose settings.isMeshVisible accepts
\* the mesh instance ids of visible.
ExportGltfScene(visible) ==
    /\ exported = NoExport
    /\ files' = <<EncodedFile(<<"model", ".glb">>, VisibleTriangles(nodes, meshes, visible),
                              GetMainJson(visible))>>
    /\ exported' = [exporter |-> "gltf", settings |-> NoSettings]
    /\ finished' = Finish(<<>>, files')
    /\ returned' = <<>>
    /\ UNCHANGED <<navigator, simulation, meshes, nodes, nextMeshId, physicalGroups>>

\* A caller of CreateModelFromPhysicalGroup and CreateRemainderModel: the
\* filtered model of every group of order (0-based group indices), made with
\* one usedMeshInstances map, then the remainder model made with that map;
\* files holds the triangles of each model, the remainder last.
CreateGroupModels(order) ==
    /\ exported = NoExport
    /\ LET made == CreateGroupModelsFrom(order, 1, <<>>)
           remainderModel == CreateRemainderModel(nodes, meshes, made.usedMeshInstances)
       IN files' = [k \in DOMAIN order |->
                       ExportedFile(physicalGroups[order[k] + 1].name, Flatten(made.models[k]))]
                   \o <<ExportedFile(<<"remainder">>, Flatten(remainderModel))>>
    /\ exported' = [exporter |-> "groupModels",
                    settings |-> [NoSettings EXCEPT !.selectedGroups = order]]
    /\ finished' = Finish(<<>>, files')
    /\ returned' = <<>>
    /\ UNCHANGED <<navigator, simulation, meshes, nodes, nextMeshId, physicalGroups>>

\* without physical groups: the Export Failed message is shown and the
\* exporter is not run.
ExportModelRejected(settings) ==
    /\ exported = NoExport
    /\ MeshInstanceCount(nodes) = 0
    /\ Len(physicalGroups) = 0
    /\ exported' = [exporter |-> "rejected", settings |-> settings]
    /\ returned' = <<>>
    /\ UNCHANGED <<navigator, simulation, meshes, nodes, nextMeshId, physicalGroups, files, finished>>

\* The export is over and the dialog is closed: the next export starts with
\* a new files array.
CloseExport ==
    /\ exported # NoExport
    /\ ~Waiting
    /\ files' = <<>>
    /\ exported' = NoExport
    /\ finished' = <<>>
    /\ returned' = <<>>
    /\ UNCHANGED <<navigator, simulation, meshes, nodes, nextMeshId, physicalGroups>>

\* ---------------------------------------------------- simulation plugin

\* SimulationPlugin after its constructor: no tracked group, no export, no
\* dialog, no timer and no loop.
NoSimulation ==
    [physicalGroups |-> {}, isExporting |-> FALSE, confirmDialog |-> FALSE,
     progressDialog |-> FALSE, timers |-> 0, loops |-> <<>>]

\* No dialog, timer or loop of the plugin is pending.
SimulationIdle ==
    /\ ~simulation.confirmDialog /\ ~simulation.progressDialog
    /\ simulation.timers = 0 /\ simulation.loops = <<>>

\* SimulationPlugin.resetPhysicalGroups, the handler of model_loaded: the
\* indices of the groups of the model are tracked.
ResetPhysicalGroups ==
    /\ SimulationIdle
    /\ exported = NoExport
    /\ simulation' = [simulation EXCEPT
                         !.physicalGroups = 0 .. PhysicalGroupCount - 1]
    /\ UNCHANGED <<navigator, meshes, nodes, nextMeshId, physicalGroups, files, exported, finished, returned>>

\* SimulationPlugin.handleSimulateClick: nothing while isExporting, a message
\* without tracked groups, else the confirmation dialog is opened.
HandleSimulateClick ==
    /\ ~simulation.confirmDialog
    /\ simulation' = IF simulation.isExporting \/ simulation.physicalGroups = {}
                     THEN simulation
                     ELSE [simulation EXCEPT !.confirmDialog = TRUE]
    /\ UNCHANGED <<navigator, meshes, nodes, nextMeshId, physicalGroups, files, exported, finished, returned>>

\* Cancel in the confirmation dialog
ConfirmCancel ==
    /\ simulation.confirmDialog
    /\ simulation' = [simulation EXCEPT !.confirmDialog = FALSE]
    /\ UNCHANGED <<navigator, meshes, nodes, nextMeshId, physicalGroups, files, exported, finished, returned>>

\* Simulate in the confirmation dialog: the dialog is closed and
\* startSimulation sets isExporting, opens the progress dialog and sets the
\* timer that will call processPhysicalGroups.
StartSimulation ==
    /\ simulation.confirmDialog
    /\ simulation.timers + Len(simulation.loops) < MaxLoops
    /\ simulation' = [simulation EXCEPT !.confirmDialog = FALSE, !.isExporting = TRUE,
                                        !.progressDialog = TRUE, !.timers = @ + 1]
    /\ UNCHANGED <<navigator, meshes, nodes, nextMeshId, physicalGroups, files, exported, finished, returned>>

\* Cancel in the progress dialog
ProgressCancel ==
    /\ simulation.progressDialog
    /\ simulation' = [simulation EXCEPT !.isExporting = FALSE, !.progressDialog = FALSE]
    /\ UNCHANGED <<navigator, meshes, nodes, nextMeshId, physicalGroups, files, exported, finished, returned>>

\* exportGroupAsGlb: the files ExporterGltf.Export hands to the callback for
\* the group.
ExportGroupAsGlb(groupIndex) ==
    ExporterGltf_ExportContent(
        [NoSettings EXCEPT !.exportPhysicalGroups = TRUE, !.selectedGroups = <<groupIndex>>],
        "Binary")

\* The loop of processPhysicalGroups from position i up to its next await of
\* an upload: a group that is not found is skipped, an export without files
\* throws; the result is the position of the upload awaited, or 0 when the
\* loop has called finishSimulation.
RECURSIVE ProcessFrom(_, _)
ProcessFrom(groupIndices, i) ==
    IF i > Len(groupIndices) THEN 0
    ELSE IF groupIndices[i] \notin 0 .. PhysicalGroupCount - 1
         THEN ProcessFrom(groupIndices, i + 1)
         ELSE IF ExportGroupAsGlb(groupIndices[i]) = <<>> THEN 0
              ELSE i

\* The plugin after loop l (Len + 1 for a new loop) has run to position i:
\* at 0 finishSimulation has reset isExporting and closed the progress dialog
\* and the loop is over, else the loop awaits the upload of position i.
AfterLoopStep(sim, l, groupIndices, i) ==
    IF i = 0
    THEN [sim EXCEPT !.isExporting = FALSE, !.progressDialog = FALSE,
                     !.loops = SubSeq(@, 1, l - 1) \o SubSeq(@, l + 1, Len(@))]
    ELSE IF l > Len(sim.loops)
         THEN [sim EXCEPT !.loops = Append(@, [groupIndices |-> groupIndices, i |-> i])]
         ELSE [sim EXCEPT !.loops[l] = [groupIndices |-> groupIndices, i |-> i]]

\* The timer of startSimulation fires: processPhysicalGroups runs up to its
\* first await.
ProcessPhysicalGroups ==
    /\ simulation.timers > 0
    /\ LET groupIndices == SortedSeq(simulation.physicalGroups)
           sim == [simulation EXCEPT !.timers = @ - 1]
       IN simulation' = AfterLoopStep(sim, Len(sim.loops) + 1, groupIndices,
                                      ProcessFrom(groupIndices, 1))
    /\ UNCHANGED <<navigator, meshes, nodes, nextMeshId, physicalGroups, files, exported, finished, returned>>

\* The server answers the upload loop l awaits: the loop goes on with the
\* next group, or uploadGlbToServer throws and the loop ends.
UploadResponse(l, ok) ==
    /\ l \in DOMAIN simulation.loops
    /\ LET loop == simulation.loops[l]
       IN simulation' = AfterLoopStep(simulation, l, loop.groupIndices,
                                      IF ok THEN ProcessFrom(loop.groupIndices, loop.i + 1)
                                      ELSE 0)
    /\ UNCHANGED <<navigator, meshes, nodes, nextMeshId, physicalGroups, files, exported, finished, returned>>

\* ------------------------------------------------------------ navigator

\* The MeshInstanceId objects a caller can hand to the navigator: a key and
\* the identity of the object.
ObjectIds == {1, 2}
MeshIdObjects == {[key |-> key, obj |-> o] : key \in InstanceKeys(nodes, meshes), o \in ObjectIds}

\* Navigator after its constructor. selection and tempSelectedMeshId are <<>>
\* for null, else <<m>>; selections holds the mesh instance ids of its
\* Selection objects in insertion order.
NewNavigator ==
    [selection |-> <<>>, selections |-> <<>>, tempSelectedMeshId |-> <<>>,
     isMultiSelectionEnabled |-> FALSE]

\* Navigator.GetAllSelectedMeshIds: a Set of MeshInstanceId objects.
GetAllSelectedMeshIds(nav) ==
    IF nav.tempSelectedMeshId # <<>> THEN {nav.tempSelectedMeshId[1]}
    ELSE {nav.selections[k] : k \in DOMAIN nav.selections}
         \cup {nav.selection[k] : k \in DOMAIN nav.selection}

\* Navigator.SetSelection with a mesh selection or with null (<<>>).
Navigator_SetSelection(nav, selection) ==
    IF selection # <<>> /\ nav.isMultiSelectionEnabled
    THEN LET same == {k \in DOMAIN nav.selections : nav.selections[k].key = selection[1].key}
             first == CHOOSE k \in same : \A j \in same : k <= j
         IN [nav EXCEPT !.selections = IF same # {}
                                       THEN SubSeq(@, 1, first - 1) \o SubSeq(@, first + 1, Len(@))
                                       ELSE Append(@, selection[1]),
                        !.selection = selection,
                        !.tempSelectedMeshId = <<>>]
    ELSE LET oldSelection == nav.selection
             isEqual == /\ oldSelection # <<>> /\ selection # <<>>
                        /\ oldSelection[1].key = selection[1].key
         IN [nav EXCEPT !.selections = IF ~nav.isMultiSelectionEnabled THEN <<>> ELSE @,
                        !.selection = IF isEqual THEN <<>> ELSE selection,
                        !.tempSelectedMeshId = <<>>]

SetSelection(selection) ==
    /\ navigator' = Navigator_SetSelection(navigator, selection)
    /\ UNCHANGED <<simulation, meshes, nodes, nextMeshId, physicalGroups, files, exported,
                   finished, returned>>

\* keyDownHandler and keyUpHandler for the Ctrl or the Command key
SetMultiSelection(enabled) ==
    /\ navigator' = [navigator EXCEPT !.isMultiSelectionEnabled = enabled]
    /\ UNCHANGED <<simulation, meshes, nodes, nextMeshId, physicalGroups, files, exported,
                   finished, returned>>

\* onMeshTemporarySelected of the materials panel
MeshTemporarySelected(meshInstanceId) ==
    /\ navigator' = [navigator EXCEPT !.tempSelectedMeshId = meshInstanceId]
    /\ UNCHANGED <<simulation, meshes, nodes, nextMeshId, physicalGroups, files, exported,
                   finished, returned>>

\* Navigator.Clear
NavigatorClear ==
    /\ navigator' = [navigator EXCEPT !.selection = <<>>, !.selections = <<>>,
                                      !.isMultiSelectionEnabled = FALSE]
    /\ UNCHANGED <<simulation, meshes, nodes, nextMeshId, physicalGroups, files, exported,
                   finished, returned>>

\* ------------------------------------------------------ scene properties

\* The nodes whose parent chain ends at the root.
RECURSIVE ReachesRoot(_, _)
ReachesRoot(ns, n) ==
    IF n = RootId THEN TRUE
    ELSE IF n \notin DOMAIN ns THEN FALSE
    ELSE ReachesRoot(ns, ns[n].parent)

Reachable(ns) == {n \in DOMAIN ns : ReachesRoot(ns, n)}

SlotPairs(ns) ==
    UNION {{<<n, s>> : s \in DOMAIN ns[n].meshIndices} : n \in Reachable(ns)}

NodeDepth2 == {n \in DOMAIN nodes : nodes[n].parent \notin {0, RootId}}

\* C10: MeshInstanceCount() equals the number of (node, mesh-slot) pairs
\* reachable from the root at any nesting depth, and equals the number of
\* mesh instances visited by EnumerateMeshInstances.
C10_InstanceCount ==
    /\ MeshInstanceCount(nodes) = Cardinality(SlotPairs(nodes))
    /\ Len(EnumerateMeshInstances(nodes, meshes)) = Cardinality(SlotPairs(nodes))

\* C10 witness: a nested tree, mesh slots on the root and on a grandchild.
C10_Witness ==
    /\ nodes[RootId].meshIndices # <<>>
    /\ \E n \in NodeDepth2 : nodes[n].meshIndices # <<>>
    /\ MeshInstanceCount(nodes) >= 2

MeshIds(ms) == {ms[k].id : k \in DOMAIN ms}

\* The mesh objects one node refers to, slot by slot.
MeshObjs(ns, ms, n) ==
    [s \in DOMAIN ns[n].meshIndices |-> GetMesh(ms, ns[n].meshIndices[s]).id]

C7_ValidIndices ==
    \A n \in DOMAIN nodes : \A s \in DOMAIN nodes[n].meshIndices :
        nodes[n].meshIndices[s] \in 0 .. Len(meshes) - 1

\* A step that removes a mesh leaves every other slot on the mesh object it
\* denoted before the step.
C7_SameObjects ==
    Len(meshes') < Len(meshes) =>
        \A n \in DOMAIN nodes :
            MeshObjs(nodes', meshes', n) =
                SelectSeq(MeshObjs(nodes, meshes, n), LAMBDA id : id \in MeshIds(meshes'))

C22_RemovePhysicalGroup ==
    [][\A index \in -1 .. MaxGroups :
          RemovePhysicalGroup(index) =>
              IF index < 0 \/ index >= Len(physicalGroups)
              THEN returned' = <<FALSE>> /\ physicalGroups' = physicalGroups
              ELSE /\ returned' = <<TRUE>>
                   /\ Len(physicalGroups') = Len(physicalGroups) - 1
                   /\ \A k \in 1 .. index : physicalGroups'[k] = physicalGroups[k]
                   /\ \A k \in index + 1 .. Len(physicalGroups') :
                          physicalGroups'[k] = physicalGroups[k + 1]]_vars

\* A group was removed from a list of two groups and the other one is left.
C22_Witness == returned = <<TRUE>> /\ Len(physicalGroups) = 1

\* ------------------------------------------- physical group properties

\* C1: no two physical groups of the model have the same name: creating a
\* group whose name already exists is rejected and leaves the list unchanged.
C1_UniqueGroupNames ==
    \A i, j \in DOMAIN physicalGroups :
        i # j => physicalGroups[i].name # physicalGroups[j].name

NoDuplicates(arr) == \A i, j \in DOMAIN arr : i # j => arr[i] # arr[j]

\* C8: AddMeshWithIndex (key, f) applied twice leaves the group as applying it
\* once does, and no face-index list of a group contains a duplicate.
C8_AddFaceIdempotent ==
    \A i \in DOMAIN physicalGroups :
        /\ \A key \in DOMAIN physicalGroups[i].meshFaces :
              NoDuplicates(physicalGroups[i].meshFaces[key])
        /\ \A key \in InstanceKeys(nodes, meshes) :
              \A f \in 0 .. TriangleCountOf(meshes, key) - 1 :
                 LET once == PhysicalGroup_AddMeshWithIndex(physicalGroups[i], key, f)
                 IN /\ PhysicalGroup_AddMeshWithIndex(once, key, f) = once
                    /\ (key \in DOMAIN physicalGroups[i].meshFaces
                        /\ Includes(physicalGroups[i].meshFaces[key], f))
                       => once = physicalGroups[i]

\* C8 witness: a group holds a face list with two indices, so that a repeated
\* AddMeshWithIndex meets an index that is already present.
C8_Witness ==
    \E i \in DOMAIN physicalGroups : \E key \in DOMAIN physicalGroups[i].meshFaces :
        /\ Len(physicalGroups[i].meshFaces[key]) >= 2
        /\ key \in physicalGroups[i].meshes

\* The mesh instances of the model before a step whose mesh is still in the
\* mesh list after it.
SurvivingInstances ==
    LET all == EnumerateMeshInstances(nodes, meshes)
    IN {all[k] : k \in {x \in DOMAIN all : all[x].mesh.id \in MeshIds(meshes')}}

C6_StableUnderRemoval ==
    Len(meshes') < Len(meshes) =>
        \A inst \in SurvivingInstances :
            /\ HasMeshInstance(nodes', inst.id)
            /\ GetMesh(meshes', inst.id[2]).id = inst.mesh.id

\* C6: after Model.RemoveMesh (index) every mesh instance of another mesh has
\* the key (node id, mesh index) it had before, so a group membership recorded
\* under that key denotes the same mesh instance and the same geometry.
C6_KeysStable == [][C6_StableUnderRemoval]_vars

\* C9: each index of a group's face-index list for a key is a triangle index
\* of the mesh the key refers to, and each key stored in a group resolves to a
\* mesh instance of the model.
C9_MembershipValid ==
    \A i \in DOMAIN physicalGroups :
        \A key \in physicalGroups[i].meshes \cup DOMAIN physicalGroups[i].meshFaces :
            /\ HasMeshInstance(nodes, key)
            /\ key[2] \in 0 .. Len(meshes) - 1
            /\ \A k \in DOMAIN GetMeshFaceIndices(physicalGroups[i], key) :
                  GetMeshFaceIndices(physicalGroups[i], key)[k]
                      \in 0 .. TriangleCountOf(meshes, key) - 1

\* C24: after PhysicalGroup.AddMesh (key), GetMeshFaceIndices (key) is the
\* empty list (the whole mesh), also when face indices had been added for the
\* key before.
C24_AddMeshIsWholeMesh ==
    [][\A i \in 1 .. MaxGroups : \A key \in InstanceKeys(nodes, meshes) :
          GroupAddMesh(i, key) => GetMeshFaceIndices(physicalGroups'[i], key) = <<>>]_vars

\* The key set and the face-index map of a group agree: the touched keys are
\* the keys of the map, ContainsMesh holds for the keys with a face list, and
\* MeshCount counts them.
KeySetsAgree(g) ==
    /\ g.meshes = DOMAIN g.meshFaces
    /\ \A key \in InstanceKeys(nodes, meshes) : ContainsMesh(g, key) <=> key \in DOMAIN g.meshFaces
    /\ PhysicalGroup_MeshCount(g) = Cardinality(DOMAIN g.meshFaces)

\* C30: after every AddMesh, AddMeshWithIndex, RemoveMesh and Clear on a
\* group its key set and its face-index map agree; AddMesh and
\* AddMeshWithIndex raise MeshCount by one for a key that was not contained
\* and leave it for others, RemoveMesh lowers it by one and removes the key
\* with its face indices, Clear leaves no key.
C30_KeySetMatchesFaceMap ==
    [][\A i \in DOMAIN physicalGroups :
          LET MeshCountBefore == PhysicalGroup_MeshCount(physicalGroups[i])
              MeshCountAfter == PhysicalGroup_MeshCount(physicalGroups'[i])
          IN /\ i \in DOMAIN physicalGroups' => KeySetsAgree(physicalGroups'[i])
             /\ \A key \in InstanceKeys(nodes, meshes) :
                   /\ (GroupAddMesh(i, key)
                       \/ \E f \in 0 .. TriangleCountOf(meshes, key) - 1 :
                             GroupAddMeshWithIndex(i, key, f)) =>
                          /\ ContainsMesh(physicalGroups'[i], key)
                          /\ MeshCountAfter = MeshCountBefore
                                + (IF ContainsMesh(physicalGroups[i], key) THEN 0 ELSE 1)
                   /\ GroupRemoveMesh(i, key) =>
                          /\ ~ContainsMesh(physicalGroups'[i], key)
                          /\ key \notin DOMAIN physicalGroups'[i].meshFaces
                          /\ MeshCountAfter = MeshCountBefore - 1
             /\ GroupClear(i) => MeshCountAfter = 0 /\ physicalGroups'[i].meshFaces = <<>>]_vars

\* C30 witness: a group that holds one mesh instance as a whole and one with
\* a face list.
C30_Witness ==
    \E i \in DOMAIN physicalGroups :
        /\ PhysicalGroup_MeshCount(physicalGroups[i]) = 2
        /\ \E key \in physicalGroups[i].meshes : physicalGroups[i].meshFaces[key] = <<>>
        /\ \E key \in physicalGroups[i].meshes : physicalGroups[i].meshFaces[key] # <<>>

\* ----------------------------------------------------- export properties

\* G_i, the triangles a group denotes: for each touched key that resolves to a
\* mesh instance, the listed triangles, or all of them when the list is empty.
GroupTriangleSet(g) ==
    UNION {LET faces == GetMeshFaceIndices(g, key)
               listed == IF faces = <<>>
                         THEN 0 .. TriangleCountOf(meshes, key) - 1
                         ELSE {faces[k] : k \in DOMAIN faces}
           IN {ModelTriangle(key, f) : f \in listed} :
           key \in g.meshes \cap InstanceKeys(nodes, meshes)}

\* All triangles of the model, one per mesh instance and triangle of its mesh.
ModelTriangleSet ==
    UNION {{ModelTriangle(key, f) : f \in 0 .. TriangleCountOf(meshes, key) - 1} :
              key \in InstanceKeys(nodes, meshes)}

FileTriangleSet(file) == {file.tris[k] : k \in DOMAIN file.tris}

FilesNamed(name) == {k \in DOMAIN files : files[k].name = name}

\* The groups a finished group export was asked for (0-based, ascending).
ExportScope ==
    LET st == exported.settings
        all == [k \in 1 .. Len(physicalGroups) |-> k - 1]
    IN IF exported.exporter = "gltf"
       THEN (IF Len(st.selectedGroups) > 0 THEN st.selectedGroups ELSE all)
       ELSE (IF st.exportSelectedOnly THEN st.selectedGroups ELSE all)

ScopeSet == {ExportScope[k] : k \in DOMAIN ExportScope}

\* C2: when ExporterStl.ExportPhysicalGroups with exportRemainder has emitted
\* a remainder file, that file holds no triangle of a group in the export
\* scope, and no group file shares a triangle with it.
C2_RemainderDisjoint ==
    (exported.exporter = "stlGroups" /\ exported.settings.exportRemainder) =>
        \A r \in FilesNamed(<<"remainder", ".stl">>) :
            /\ \A i \in ScopeSet :
                  FileTriangleSet(files[r]) \cap GroupTriangleSet(physicalGroups[i + 1]) = {}
            /\ \A k \in DOMAIN files :
                  k # r => FileTriangleSet(files[k]) \cap FileTriangleSet(files[r]) = {}

\* C3: after a glTF or STL group export of all groups of the model together
\* with the remainder, every triangle of the model is in at least one of the
\* emitted files.
C3_FullFidelity ==
    (/\ exported.exporter \in {"gltf", "stlGroups"}
     /\ exported.settings.exportPhysicalGroups
     /\ exported.settings.exportRemainder
     /\ Len(physicalGroups) > 0
     /\ ScopeSet = {k - 1 : k \in DOMAIN physicalGroups}) =>
        ModelTriangleSet \subseteq UNION {FileTriangleSet(files[k]) : k \in DOMAIN files}

\* The selected groups that denote at least one triangle, in ascending order.
SelectedNonEmpty ==
    SelectSeq(ExportScope, LAMBDA i : GroupTriangleSet(physicalGroups[i + 1]) # {})

\* C4: an STL export of selected groups without the remainder that did not fail emits exactly
\* one file per selected non-empty group, the file of a group holds as many
\* triangles as the group denotes, and there is no remainder file.
C4_SelectedGroupsOnly ==
    (/\ exported.exporter \in {"stl", "stlGroups"}
     /\ exported.settings.exportPhysicalGroups
     /\ exported.settings.exportSelectedOnly
     /\ exported.settings.exportSeparateFiles
     /\ exported.settings.selectedGroups # <<>>
     /\ ~exported.settings.exportRemainder
     /\ ~Waiting
     /\ FilesNamed(<<"error", ".txt">>) = {}) =>
        /\ Len(files) = Len(SelectedNonEmpty)
        /\ \A k \in DOMAIN files :
              Len(files[k].tris) =
                 Cardinality(GroupTriangleSet(physicalGroups[SelectedNonEmpty[k] + 1]))
        /\ FilesNamed(<<"remainder", ".stl">>) = {}

\* The scene files of a glTF export, without the buffer files beside them.
GltfMainFiles == SelectSeq(files, LAMBDA f : f.name[Len(f.name)] # ".bin")

\* C5: after a glTF or GLB group export, the file emitted for a group holds
\* exactly the triangles the group denotes.
C5_GltfGroupTriangles ==
    (exported.exporter = "gltf" /\ exported.settings.exportPhysicalGroups) =>
        /\ Len(GltfMainFiles) = Len(ExportScope)
        /\ \A k \in DOMAIN GltfMainFiles :
              FileTriangleSet(GltfMainFiles[k]) =
                 GroupTriangleSet(physicalGroups[ExportScope[k] + 1])

\* The groups in the export scope that touch at least one mesh instance.
TouchedGroups == SelectSeq(ExportScope, LAMBDA i : physicalGroups[i + 1].meshes # {})

\* The files of an STL group export that were written for a group.
StlGroupFiles ==
    SelectSeq(files, LAMBDA f : f.name \notin {<<"remainder", ".stl">>, <<"empty", ".stl">>})

\* C19: a group export to glTF or to separate STL files emits no file for a
\* group that touches no mesh instance and one file for every other group in
\* the export scope.
C19_EmptyGroupNoFile ==
    /\ (exported.exporter = "gltf" /\ exported.settings.exportPhysicalGroups) =>
           Len(GltfMainFiles) = Len(TouchedGroups)
    /\ (exported.exporter = "stlGroups" /\ exported.settings.exportSeparateFiles) =>
           Len(StlGroupFiles) = Len(TouchedGroups)

\* The files of a group export that are named after a group.
GroupNamedFiles == IF exported.exporter = "gltf" THEN GltfMainFiles ELSE StlGroupFiles

\* C27: the files a group export names after the groups in its scope have
\* pairwise distinct names, and the archive made of the files holds each of
\* them.
C27_DistinctArtifactNames ==
    (/\ exported.exporter \in {"gltf", "stlGroups"}
     /\ exported.settings.exportPhysicalGroups
     /\ exported.exporter = "stlGroups" => exported.settings.exportSeparateFiles) =>
        /\ \A i, j \in DOMAIN GroupNamedFiles :
              i # j => GroupNamedFiles[i].name # GroupNamedFiles[j].name
        /\ \A j \in DOMAIN GroupNamedFiles :
              \E e \in DOMAIN Package(files).entries :
                  Package(files).entries[e] = GroupNamedFiles[j]

\* ---------------------------------------------------- encoder properties

\* The files of the running export that carry the layout of their content.
EncodedFiles(kind) ==
    {k \in DOMAIN files : "content" \in DOMAIN files[k] /\ files[k].content.kind = kind}

\* C11: a binary STL file is 80 + 4 + 50 * n bytes long, where n is the
\* triangle count written after the header, n is the number of triangle
\* records written, and the records fill the file.
C11_BinaryStlLength ==
    \A k \in EncodedFiles("stlBinary") :
        LET c == files[k].content
        IN /\ c.byteLength = 80 + 4 + 50 * c.triangleCount
           /\ c.triangleCount = c.writtenTriangles
           /\ c.position = c.byteLength

\* C11 witness: the binary STL file of a model of twelve triangles has 684
\* bytes.
C11_Witness ==
    \E k \in EncodedFiles("stlBinary") :
        /\ files[k].content.writtenTriangles = 12
        /\ files[k].content.byteLength = 684

\* C12: the byte length of a GLB file is a multiple of 4, and so are the
\* declared lengths of its JSON chunk and of its binary chunk.
C12_GlbAlignment ==
    \A k \in EncodedFiles("glb") :
        LET c == files[k].content
        IN /\ c.byteLength % 4 = 0
           /\ c.length % 4 = 0
           /\ c.jsonChunkLength % 4 = 0
           /\ c.binChunkLength % 4 = 0

\* C12 witness: a GLB file whose scene description and whose binary data both
\* needed padding, for a model with geometry.
C12_Witness ==
    \E k \in EncodedFiles("glb") :
        /\ files[k].content.jsonPadding.count > 0
        /\ files[k].content.binPadding.count > 0
        /\ files[k].content.regions # <<>>

\* C25: a GLB file has the length its header declares, 12 + 8 + padded JSON
\* length + 8 + padded binary length, and that many bytes are written; the
\* JSON chunk comes before the binary chunk; the JSON chunk is padded with
\* fewer than 4 spaces and the binary chunk with fewer than 4 zero bytes; the
\* byteLength declared for buffer 0 is the length of the binary chunk.
C25_GlbDeclaredLengths ==
    \A k \in EncodedFiles("glb") :
        LET c == files[k].content
        IN /\ c.length = 12 + 8 + c.jsonChunkLength + 8 + c.binChunkLength
           /\ c.length = c.position
           /\ c.length = c.byteLength
           /\ c.jsonChunkStart = 12 + 8
           /\ c.binChunkStart = c.jsonChunkStart + c.jsonChunkLength + 8
           /\ c.jsonPadding.char = 32 /\ c.jsonPadding.count \in 0 .. 3
           /\ c.binPadding.char = 0 /\ c.binPadding.count \in 0 .. 3
           /\ c.bufferByteLength = c.binChunkLength

\* C25 witness: a GLB file of a model with geometry and a texture, with three
\* bytes of padding in each chunk.
C25_Witness ==
    \E k \in EncodedFiles("glb") :
        /\ files[k].content.jsonPadding.count = 3
        /\ files[k].content.binPadding.count = 3
        /\ files[k].content.regions # <<>>
        /\ files[k].content.position = files[k].content.length

\* The buffer views of a scene file, in the order of their creation.
BufferViews(c) == Flatten(c.meshViews) \o c.textureViews

MinimalEmptyFile(file) ==
    /\ "content" \in DOMAIN file
    /\ \/ file.content.kind = "stlBinary" /\ file.content.byteLength = 84
                                          /\ file.content.triangleCount = 0
       \/ file.content.kind = "stlText" /\ file.content.facets = 0
       \/ file.content.kind \in {"gltf", "glb"} /\ file.content.regions = <<>>

\* C13: the export of a model without mesh instances, without group export,
\* reports no error and returns exactly one file, a minimal empty one, for
\* text STL, binary STL, gltf and glb.
C13_EmptyModelExport ==
    (/\ exported # NoExport
     /\ ~exported.settings.exportPhysicalGroups
     /\ MeshInstanceCount(nodes) = 0) =>
        /\ exported.exporter # "rejected"
        /\ Len(files) = 1
        /\ MinimalEmptyFile(files[1])

\* ------------------------------------------------- completion properties

\* The exports that go through ExportContent with a completion callback.
CallbackExporters == {"stl", "gltf", "step", "iges"}

\* C14: the completion callback passed to ExportContent is invoked exactly
\* once: never a second time, and once when the export pass is over.
C14_CallbackOnce ==
    exported.exporter \in CallbackExporters =>
        /\ Len(finished) <= 1
        /\ ~Waiting => Len(finished) = 1

\* The export pass failed and has reported it: the files array holds the
\* error.txt placeholder, or the callback was called with an empty array.
FailedExport ==
    /\ exported.exporter \in CallbackExporters
    /\ finished # <<>>
    /\ \/ FilesNamed(<<"error", ".txt">>) # {}
       \/ exported.exporter = "iges" /\ files = <<>>

\* C15: after a failed export pass the caller got one failure signal and no
\* file: no placeholder such as error.txt and no file without its content is
\* handed to the completion callback.
C15_FailureWithoutFiles ==
    FailedExport =>
        /\ Len(finished) = 1
        /\ \A k \in DOMAIN finished : finished[k].files = <<>>

\* C16: the download made of a result: an empty files array is reported as
\* an error, one file is downloaded as it is under its own name, and more
\* files go into one archive that holds every file of the array.
C16_Packaging ==
    \A k \in DOMAIN finished :
        LET fs == finished[k].files
            download == finished[k].download
        IN /\ Len(fs) = 0 => download.kind = "error"
           /\ Len(fs) = 1 => /\ download.kind = "file"
                             /\ download.name = fs[1].name
                             /\ download.entries = fs
           /\ Len(fs) > 1 => /\ download.kind = "zip"
                             /\ \A j \in DOMAIN fs :
                                    \E e \in DOMAIN download.entries :
                                        download.entries[e] = fs[j]

\* ------------------------------------------- IGES and STEP group properties

\* The triangles a list of triangle numbers names: number j is the j-th
\* triangle (from 0) of Model.EnumerateTriangleVertices.
NumberedTriangles(meshIds) ==
    {EnumerateTriangleVertices[meshIds[j] + 1] : j \in DOMAIN meshIds}

\* The triangles of the model that are in no physical group.
UnassignedTriangleSet ==
    ModelTriangleSet \ UNION {GroupTriangleSet(physicalGroups[k]) : k \in DOMAIN physicalGroups}

\* The meshIds of the entries of the IGES request with the given name.
RequestEntries(name) ==
    {k \in DOMAIN exported.request : exported.request[k].name = name}

\* C17: the IGES request lists for each physical group exactly the triangles
\* of the group's membership and under Unassigned_Faces exactly the triangles
\* of no group; the STEP group information gives the same triangles by count.
C17_GroupTriangles ==
    /\ (exported.exporter = "iges" /\ exported.request # <<>> /\ physicalGroups # <<>>) =>
          /\ \A k \in DOMAIN physicalGroups :
                 NumberedTriangles(exported.request[k].meshIds)
                     = GroupTriangleSet(physicalGroups[k])
          /\ \A k \in RequestEntries(<<"Unassigned_Faces">>) :
                 NumberedTriangles(exported.request[k].meshIds) = UnassignedTriangleSet
          /\ UnassignedTriangleSet # {} => RequestEntries(<<"Unassigned_Faces">>) # {}
    /\ (exported.exporter = "step" /\ physicalGroups # <<>>) =>
          \A f \in DOMAIN files :
              /\ \A k \in DOMAIN physicalGroups :
                     files[f].content.groups[k].triangles
                         = Cardinality(GroupTriangleSet(physicalGroups[k]))
              /\ files[f].content.unassigned = Cardinality(UnassignedTriangleSet)

\* ----------------------------------------------- glTF scene properties

\* The node ids of the subtree of node n.
Subtree(n) == LET order == Enumerate(nodes, n) IN {order[k] : k \in DOMAIN order}

\* The mesh instances of the model as (node, position in the node's mesh
\* index list) pairs.
InstanceSlots ==
    UNION {{<<n, s>> : s \in DOMAIN nodes[n].meshIndices} : n \in Subtree(RootId)}

SlotKey(slot) == GetKey(slot[1], nodes[slot[1]].meshIndices[slot[2]])

\* C18: in the scene description of an exported glTF file a node is there
\* only if it refers to a visible mesh instance or has a visible mesh
\* instance in its subtree, no node refers to an invisible mesh instance, and
\* every visible mesh instance of the model has exactly one node that refers
\* to it.
C18_SceneNodes ==
    \A f \in EncodedFiles("scene") :
        LET visible == files[f].content.visible
            emitted == files[f].content.nodes
        IN /\ \A e \in DOMAIN emitted :
                  IF emitted[e].kind = "mesh"
                  THEN /\ <<emitted[e].node, emitted[e].slot>> \in InstanceSlots
                       /\ emitted[e].key = SlotKey(<<emitted[e].node, emitted[e].slot>>)
                       /\ emitted[e].key \in visible
                  ELSE \E slot \in InstanceSlots :
                           slot[1] \in Subtree(emitted[e].node) /\ SlotKey(slot) \in visible
           /\ \A slot \in InstanceSlots :
                  SlotKey(slot) \in visible =>
                      Cardinality({e \in DOMAIN emitted :
                                      /\ emitted[e].kind = "mesh"
                                      /\ emitted[e].node = slot[1]
                                      /\ emitted[e].slot = slot[2]}) = 1

\* A scene description with a container node, with a mesh node below a
\* container node, and a model with a mesh instance that is not visible.
C18_Witness ==
    \E f \in EncodedFiles("scene") :
        LET visible == files[f].content.visible
            emitted == files[f].content.nodes
        IN /\ \E e \in DOMAIN emitted : emitted[e].kind = "node"
           /\ \E e \in DOMAIN emitted :
                  emitted[e].kind = "mesh" /\ nodes[emitted[e].node].parent # RootId
                     /\ emitted[e].node # RootId
           /\ \E slot \in InstanceSlots : SlotKey(slot) \notin visible

\* ------------------------------------------------------ frame properties

\* C20: an export leaves the exported model and the caller's settings as
\* they were: the mesh list, the node tree, the material list and the
\* physical groups after the call are those before the call, and the
\* caller's settings object is equal to the settings the call was given.
C20_ExportLeavesInput ==
    [][(exported = NoExport /\ exported' # NoExport) =>
          /\ meshes' = meshes
          /\ nodes' = nodes
          /\ physicalGroups' = physicalGroups
          /\ exported'.exporter = "stlGroups" =>
                ModelsAfterExport(exported'.settings).model = SourceModel
          /\ "callerSettings" \in DOMAIN exported' =>
                exported'.callerSettings = exported'.settings]_vars

\* A group export into one STL file has merged a group into the unified
\* model and has written it.
C20_Witness ==
    /\ exported.exporter = "stlGroups"
    /\ ~exported.settings.exportSeparateFiles
    /\ Len(ProcessGroups(exported.settings, 0)) > 0
    /\ FilesNamed(<<"model", ".stl">>) # {}
    /\ exported.callerSettings.exportPhysicalGroups

\* ------------------------------------------------ concurrency properties

\* The export has sent its request to the server and is over.
Answered ==
    /\ exported.exporter \in {"stl", "iges"}
    /\ exported.request # <<>>
    /\ finished # <<>>

\* The data an export started now would collect from the model.
CurrentModelData ==
    IF exported.exporter = "iges" THEN IgesPhysicalGroups ELSE StlModelData(exported.settings)

\* C21: the request an export sends to the server holds the data collected
\* from the model when the export started, and the files it hands over do
\* not depend on the model, whatever group operations ran while the export
\* was waiting for the server.
C21_ReadsBeforeSuspend ==
    Answered =>
        /\ exported.body = exported.request
        /\ \A k \in DOMAIN files :
               /\ files[k].tris = <<>>
               /\ files[k].name \in {<<"model", ".stl">>, <<"model", ".igs">>, <<"error", ".txt">>}

\* An answered export whose model was changed by a group operation after
\* the data of the request had been collected.
C21_Witness ==
    /\ Answered
    /\ exported.body # <<>>
    /\ CurrentModelData # exported.request

\* ------------------------------------------------ group model properties

\* C23: when the filtered models of the groups of a set are made with one
\* usedMeshInstances map, each model holds exactly the triangles its group
\* denotes, once each, and the remainder model made with that map holds
\* exactly the triangles of the model that no group of the set denotes.
C23_GroupModelsAndRemainder ==
    exported.exporter = "groupModels" =>
        LET order == exported.settings.selectedGroups
            remainder == files[Len(files)]
        IN /\ Len(files) = Len(order) + 1
           /\ \A k \in DOMAIN order :
                  /\ FileTriangleSet(files[k]) = GroupTriangleSet(physicalGroups[order[k] + 1])
                  /\ NoDuplicates(files[k].tris)
           /\ FileTriangleSet(remainder) =
                  ModelTriangleSet \ UNION {GroupTriangleSet(physicalGroups[order[k] + 1]) :
                                               k \in DOMAIN order}
           /\ NoDuplicates(remainder.tris)

\* Models of two groups that share a triangle, one of them holding a whole
\* mesh instance and the other a face list, with a remainder that is neither
\* empty nor the whole model.
C23_Witness ==
    /\ exported.exporter = "groupModels"
    /\ Len(exported.settings.selectedGroups) = 2
    /\ FileTriangleSet(files[1]) \cap FileTriangleSet(files[2]) # {}
    /\ \E i, j \in DOMAIN physicalGroups :
          \E key \in physicalGroups[i].meshes \cap physicalGroups[j].meshes :
              /\ GetMeshFaceIndices(physicalGroups[i], key) = <<>>
              /\ GetMeshFaceIndices(physicalGroups[j], key) # <<>>
    /\ FileTriangleSet(files[3]) # {}
    /\ FileTriangleSet(files[3]) # ModelTriangleSet

\* ----------------------------------------------------- simulation properties

\* C28: at most one loop of processPhysicalGroups is running at any time.
C28_OneSimulationLoop == Len(simulation.loops) <= 1

\* ------------------------------------------------------ navigator properties

\* The keys of a set of mesh instance ids.
KeysOf(ids) == {m.key : m \in ids}

\* C29: in multi-selection mode SetSelection with a mesh of the selection set
\* removes it, and GetAllSelectedMeshIds does not hold it afterwards;
\* SetSelection with another mesh adds it; neither the selection set nor
\* GetAllSelectedMeshIds ever holds two entries of one mesh instance key.
C29_MultiSelection ==
    [][\A m \in MeshIdObjects :
          (navigator.isMultiSelectionEnabled /\ SetSelection(<<m>>)) =>
              /\ IF m.key \in KeysOf({navigator.selections[k] : k \in DOMAIN navigator.selections})
                 THEN m.key \notin KeysOf(GetAllSelectedMeshIds(navigator'))
                 ELSE m.key \in KeysOf(GetAllSelectedMeshIds(navigator'))
              /\ \A i, j \in DOMAIN navigator'.selections :
                    i # j => navigator'.selections[i].key # navigator'.selections[j].key
              /\ \A a, b \in GetAllSelectedMeshIds(navigator') : a # b => a.key # b.key]_vars

\* ------------------------------------------------------- specifications

\* Model constructor: a root node, no meshes, no physical groups.
Init ==
    /\ meshes = <<>>
    /\ nodes = <<NewNode(0)>>
    /\ nextMeshId = 1
    /\ physicalGroups = <<>>
    /\ files = <<>>
    /\ exported = NoExport
    /\ finished = <<>>
    /\ returned = <<>>
    /\ simulation = NoSimulation
    /\ navigator = NewNavigator

NextScene ==
    \/ \E t \in SceneTriCounts : AddMesh(t)
    \/ \E t \in SceneTriCounts : AddMeshToRootNode(t)
    \/ \E p \in DOMAIN nodes : AddChildNode(p)
    \/ \E n \in DOMAIN nodes, m \in 0 .. MaxMeshAdds - 1 : AddMeshIndex(n, m)
    \/ \E i \in 0 .. MaxMeshAdds - 1 : RemoveMesh(i)

SpecScene == Init /\ [][NextScene]_vars

\* A model as the importer leaves it: the root holds mesh 0 (two triangles),
\* a child node of the root holds mesh 1 (one triangle).
SceneMeshes == <<[id |-> 1, tris |-> 2], [id |-> 2, tris |-> 1]>>
SceneNodes == <<[parent |-> 0, meshIndices |-> <<0>>], [parent |-> 1, meshIndices |-> <<1>>]>>

InitGroups ==
    /\ meshes = SceneMeshes
    /\ nodes = SceneNodes
    /\ nextMeshId = Len(SceneMeshes) + 1
    /\ physicalGroups = <<>>
    /\ files = <<>>
    /\ exported = NoExport
    /\ finished = <<>>
    /\ returned = <<>>
    /\ simulation = NoSimulation
    /\ navigator = NewNavigator

NextGroups ==
    \/ \E name \in GroupNames : AddPhysicalGroup(name)
    \/ \E i \in -1 .. MaxGroups : RemovePhysicalGroup(i)
    \/ \E name \in GroupNames : RemovePhysicalGroupByName(name)
    \/ \E i \in 1 .. MaxGroups, name \in GroupNames : SetName(i, name)
    \/ \E i \in 1 .. MaxGroups, key \in InstanceKeys(nodes, meshes) : GroupAddMesh(i, key)
    \/ \E i \in 1 .. MaxGroups, key \in InstanceKeys(nodes, meshes) :
          \E f \in 0 .. TriangleCountOf(meshes, key) - 1 : GroupAddMeshWithIndex(i, key, f)
    \/ \E i \in 1 .. MaxGroups, key \in InstanceKeys(nodes, meshes) : GroupRemoveMesh(i, key)
    \/ \E i \in 1 .. MaxGroups : GroupClear(i)
    \/ \E name \in GroupNames, sel \in SUBSET InstanceKeys(nodes, meshes) :
          CreatePhysicalGroupFromSelectedFaces(name, sel)

SpecGroups == InitGroups /\ [][NextGroups]_vars

\* The model under edit: one physical group whose membership is edited while
\* mesh references are added to nodes and meshes are removed from the model.
NextModel ==
    \/ \E name \in GroupNames : physicalGroups = <<>> /\ AddPhysicalGroup(name)
    \/ \E key \in InstanceKeys(nodes, meshes) : GroupAddMesh(1, key)
    \/ \E key \in InstanceKeys(nodes, meshes) :
          \E f \in 0 .. TriangleCountOf(meshes, key) - 1 : GroupAddMeshWithIndex(1, key, f)
    \/ \E key \in InstanceKeys(nodes, meshes) : GroupRemoveMesh(1, key)
    \/ \E n \in DOMAIN nodes, m \in 0 .. MaxMeshAdds - 1 : AddMeshIndex(n, m)
    \/ \E i \in 0 .. MaxMeshAdds - 1 : RemoveMesh(i)

Spec == InitGroups /\ [][NextModel]_vars

Formats == {"Text", "Binary"}

\* The settings of a group export: the selected groups are indices of groups
\* of the model in ascending order, as the export dialog collects them.
GroupSettings ==
    {[exportPhysicalGroups |-> TRUE, selectedGroups |-> SortedSeq(sel),
      exportSelectedOnly |-> so, exportRemainder |-> rem, exportSeparateFiles |-> sep] :
        sel \in SUBSET (0 .. Len(physicalGroups) - 1),
        so \in BOOLEAN, rem \in BOOLEAN, sep \in BOOLEAN}

\* The settings an export can be started with.
ExportSettings == {NoSettings} \cup GroupSettings

\* Groups are created in the website and edited, then the model is exported;
\* the model is not edited while an export runs.
NextExport ==
    \/ exported = NoExport /\ \E name \in GroupNames, sel \in SUBSET InstanceKeys(nodes, meshes) :
          CreatePhysicalGroupFromSelectedFaces(name, sel)
    \/ exported = NoExport /\ \E i \in 1 .. MaxGroups, key \in InstanceKeys(nodes, meshes) :
          \E f \in 0 .. TriangleCountOf(meshes, key) - 1 : GroupAddMeshWithIndex(i, key, f)
    \/ exported = NoExport /\ \E i \in 1 .. MaxGroups, key \in InstanceKeys(nodes, meshes) :
          GroupRemoveMesh(i, key)
    \/ \E st \in ExportSettings, fmt \in Formats, prepared \in BOOLEAN :
          ExportStl(st, fmt, prepared)
    \/ \E ok \in BOOLEAN, callbackThrows \in BOOLEAN : FreeCADResponse(ok, callbackThrows)
    \/ \E st \in GroupSettings, fmt \in Formats : ExportStlGroups(st, fmt)
    \/ \E st \in ExportSettings, fmt \in Formats : ExportGltf(st, fmt)
    \/ \E prepared \in BOOLEAN : ExportIges(prepared)
    \/ \E ok \in BOOLEAN, callbackThrows \in BOOLEAN : IgesResponse(ok, callbackThrows)
    \/ \E callbackThrows \in BOOLEAN : ExportStep(callbackThrows)
    \/ CloseExport

SpecExport == InitGroups /\ [][NextExport]_vars

\* The triangle counts of the meshes the encoders are run on, the byte
\* lengths of the scene description and the texture buffers of the materials.
EncoderTriCounts == {0, 1, CubeTriangleCount}
JsonLengths == 20 .. 23
TextureBuffers == {<<>>, <<1>>, <<2, 4>>, <<3>>}

\* A model is built mesh by mesh and exported as a whole.
NextEncode ==
    \/ exported = NoExport /\ \E t \in EncoderTriCounts : AddMeshToRootNode(t)
    \/ ExportModelRejected(NoSettings)
    \/ \E fmt \in Formats : ExportStl(NoSettings, fmt, TRUE)
    \/ \E fmt \in Formats, j \in JsonLengths, tex \in TextureBuffers :
          ExportGltfContent(fmt, j, tex)
    \/ CloseExport

SpecEncode == Init /\ [][NextEncode]_vars

\* A node tree is built and exported to glTF with a visibility filter.
NextGltfScene ==
    \/ exported = NoExport /\ \E t \in SceneTriCounts : AddMesh(t)
    \/ exported = NoExport /\ \E pn \in DOMAIN nodes : AddChildNode(pn)
    \/ exported = NoExport /\ \E n \in DOMAIN nodes, m \in 0 .. MaxMeshAdds - 1 :
          AddMeshIndex(n, m)
    \/ \E visible \in SUBSET InstanceKeys(nodes, meshes) : ExportGltfScene(visible)
    \/ CloseExport

SpecGltfScene == Init /\ [][NextGltfScene]_vars

\* The settings of a group export through the server: the request holds the
\* selected group indices and no other setting.
ServerSettings ==
    {st \in GroupSettings :
        st.exportSelectedOnly /\ st.exportSeparateFiles /\ ~st.exportRemainder}

\* Group operations run while an export waits for the server.
NextAsync ==
    \/ exported = NoExport /\ \E name \in GroupNames, sel \in SUBSET InstanceKeys(nodes, meshes) :
          CreatePhysicalGroupFromSelectedFaces(name, sel)
    \/ Waiting /\ \E index \in 0 .. MaxGroups - 1 : RemovePhysicalGroup(index)
    \/ Waiting /\ \E i \in 1 .. MaxGroups, key \in InstanceKeys(nodes, meshes) :
          GroupAddMesh(i, key)
    \/ Waiting /\ \E i \in 1 .. MaxGroups, key \in InstanceKeys(nodes, meshes) :
          GroupRemoveMesh(i, key)
    \/ \E st \in ServerSettings, fmt \in Formats, prepared \in BOOLEAN :
          ExportStl(st, fmt, prepared)
    \/ \E ok \in BOOLEAN, callbackThrows \in BOOLEAN : FreeCADResponse(ok, callbackThrows)
    \/ \E prepared \in BOOLEAN : ExportIges(prepared)
    \/ \E ok \in BOOLEAN, callbackThrows \in BOOLEAN : IgesResponse(ok, callbackThrows)
    \/ CloseExport

SpecAsync == InitGroups /\ [][NextAsync]_vars

\* The orders in which the groups of a set of groups can be taken.
GroupOrders ==
    {order \in UNION {[1 .. n -> 0 .. Len(physicalGroups) - 1] : n \in 0 .. Len(physicalGroups)} :
        \A i, j \in DOMAIN order : i # j => order[i] # order[j]}

\* Groups are created and edited, then their models and the remainder model
\* are made.
NextGroupModels ==
    \/ exported = NoExport /\ \E name \in GroupNames, sel \in SUBSET InstanceKeys(nodes, meshes) :
          CreatePhysicalGroupFromSelectedFaces(name, sel)
    \/ exported = NoExport /\ \E i \in 1 .. MaxGroups, key \in InstanceKeys(nodes, meshes) :
          GroupAddMesh(i, key)
    \/ exported = NoExport /\ \E i \in 1 .. MaxGroups, key \in InstanceKeys(nodes, meshes) :
          \E f \in 0 .. TriangleCountOf(meshes, key) - 1 : GroupAddMeshWithIndex(i, key, f)
    \/ exported = NoExport /\ \E i \in 1 .. MaxGroups, key \in InstanceKeys(nodes, meshes) :
          GroupRemoveMesh(i, key)
    \/ exported = NoExport /\ \E i \in 1 .. MaxGroups : GroupClear(i)
    \/ \E order \in GroupOrders : CreateGroupModels(order)
    \/ CloseExport

SpecGroupModels == InitGroups /\ [][NextGroupModels]_vars

\* Groups are created while the plugin is idle, the model is announced to the
\* plugin, and the user works the Simulate button and its dialogs while the
\* timers fire and the server answers.
NextSimulation ==
    \/ SimulationIdle /\ exported = NoExport
          /\ \E name \in GroupNames, sel \in SUBSET InstanceKeys(nodes, meshes) :
                CreatePhysicalGroupFromSelectedFaces(name, sel)
    \/ ResetPhysicalGroups
    \/ HandleSimulateClick
    \/ ConfirmCancel
    \/ StartSimulation
    \/ ProgressCancel
    \/ ProcessPhysicalGroups
    \/ \E l \in 1 .. MaxLoops, ok \in BOOLEAN : UploadResponse(l, ok)

SpecSimulation == InitGroups /\ [][NextSimulation]_vars

\* The user selects meshes in the navigator, with and without the Ctrl key.
NextNavigator ==
    \/ \E m \in MeshIdObjects : SetSelection(<<m>>)
    \/ SetSelection(<<>>)
    \/ \E enabled \in BOOLEAN : SetMultiSelection(enabled)
    \/ \E m \in MeshIdObjects : MeshTemporarySelected(<<m>>)
    \/ MeshTemporarySelected(<<>>)
    \/ NavigatorClear

SpecNavigator == InitGroups /\ [][NextNavigator]_vars

====
